---- MODULE Spec2Model ----
(***************************************************************************)
(* WorkloadAwareScheduler of resource_management/neural_orchestrator.py:   *)
(* the priority computation, the asyncio.PriorityQueue it keeps (a binary  *)
(* heap of (priority, job_id, job) tuples) and the drain loop that every   *)
(* schedule_job call runs after its enqueue.                               *)
(*                                                                         *)
(* schedule_job is a coroutine: it runs atomically from one suspension     *)
(* point to the next.  The suspension points of the drain are the          *)
(* wait_for(job_queue.get(), 0.1) of line 271 and the sleep of             *)
(* _execute_job; everything between two of them is one action.             *)
(*                                                                         *)
(* Numbers: usage is in whole percent.  A resource_weight is kept in       *)
(* fifths (1.0 is 5, 2.0 is 10, 2.2 is 11), so that the products           *)
(* weight * 10, weight * 5 and weight * 15 of _update_resource_usage are   *)
(* whole numbers.                                                          *)
(*                                                                         *)
(* CarbonAwareScheduler of the same file: the forecast of green windows,   *)
(* the packing of jobs into them and the savings figure.  Durations and    *)
(* capacities are whole hours, intensities whole gCO2/kWh, emissions and   *)
(* savings are kept in grams (the code divides by 1000), the percentage in *)
(* whole percent, rounded down.                                            *)
(*                                                                         *)
(* NeuralResourceOrchestrator of the same file: the history of samples     *)
(* that monitor_resources keeps and the gate of predict_resource_needs.    *)
(*                                                                         *)
(* MicroBatchingEngine and ServerlessInferenceManager of                   *)
(* infrastructure/hierarchical_serving.py: the pending list, the timeout   *)
(* tasks and the batches of the first, the warm cache and the counters of  *)
(* the second.  Their coroutines are suspended in asyncio.sleep only.      *)
(***************************************************************************)
EXTENDS Integers, Sequences, FiniteSets, TLC

VARIABLES
    job_queue,        \* self.job_queue._queue: the heap list of entries
    getters,          \* self.job_queue._getters: calls blocked in get()
    pc,               \* per call: where the coroutine is suspended
    call_job,         \* per call: the job argument
    current_metrics,  \* per call: the local current_metrics of the drain
    executed_jobs,    \* per call: the local executed_jobs list (job ids)
    held,             \* per call: the entry the drain is executing
    result,           \* per call: the dictionary schedule_job returned
    probe,            \* per call: what its usage probe read (line 267)
    started,          \* history: the jobs dequeued for execution, in order
    crashed,          \* history: the jobs whose execution raised
    dropped,          \* history: the entries a raising heappop removed
    carbon_pc,        \* where the carbon scheduling call is
    carbon_call,      \* which method of CarbonAwareScheduler was called
    carbon_jobs,      \* its jobs argument
    green_windows,    \* the windows list the packing works on
    next_job,         \* the position of the for loop of line 431
    scheduled,        \* the local list scheduled (line 429)
    capacity_log,     \* history: the capacities each iteration found
    carbon_result,    \* what the call returned
    exhausted,        \* history: a returned call left a window without capacity
    resource_history, \* self.resource_history
    clock,            \* datetime.now: one tick per monitor_resources call
    sample,           \* what the last monitor_resources call returned
    prediction,       \* what the last predict_resource_needs call returned
    pending_requests, \* self.pending_requests (request ids)
    timeout_tasks,    \* how many _batch_timeout_handler tasks are asleep
    in_flight,        \* the batches whose _process_batch is asleep
    batch_stats,      \* self.batch_stats
    requests_added,   \* how many add_request calls were made
    add_result,       \* what the last add_request call returned so far
    processed,        \* history: the batches that were processed, in order
    cold_start_cache, \* self.cold_start_cache, in insertion order
    scaling_metrics,  \* self.scaling_metrics
    invocation,       \* per invoke_function call: its position and locals
    auto_scale,       \* the auto_scale_functions call: position and locals
    scale_calls,      \* how many auto_scale_functions calls were made
    stopped           \* history: the functions auto-scaling has stopped

schedulerVars ==
    <<job_queue, getters, pc, call_job, current_metrics, executed_jobs,
      held, result, probe, started, crashed, dropped>>

carbonVars ==
    <<carbon_pc, carbon_call, carbon_jobs, green_windows, next_job,
      scheduled, capacity_log, carbon_result, exhausted>>

orchestratorVars == <<resource_history, clock, sample, prediction>>

batchingVars ==
    <<pending_requests, timeout_tasks, in_flight, batch_stats, requests_added,
      add_result, processed>>

serverlessVars ==
    <<cold_start_cache, scaling_metrics, invocation, auto_scale, scale_calls,
      stopped>>

servingVars == <<batchingVars, serverlessVars>>

vars == <<schedulerVars, carbonVars, orchestratorVars, servingVars>>

----------------------------------------------------------------------------
(* Bounds *)

MaxCalls == 3

Calls == 1..MaxCalls

\* the add_request calls of MicroBatchingEngine
MaxRequests == 5

\* the concurrent invoke_function calls of ServerlessInferenceManager
MaxInvocations == 2

Invocations == 1..MaxInvocations

\* the auto_scale_functions calls
MaxScaleCalls == 3

----------------------------------------------------------------------------
(* dict.get(key, default) on a job descriptor.  A descriptor is a function   *)
(* from the keys it holds to their values.                                  *)

Get(d, key, default) == IF key \in DOMAIN d THEN d[key] ELSE default

(* A Python value that may be a number or a string where the code expects  *)
(* something else is kept tagged, so that using a string as a number or as  *)
(* a dictionary can raise as it does in Python.                             *)
Num(n) == [num |-> n]

Str(text) == [str |-> text]

IsNum(value) == "num" \in DOMAIN value

IsDict(value) == "str" \notin DOMAIN value /\ "num" \notin DOMAIN value

(* resource_weight literals, in fifths *)
Weight(whole, fifths) == 5 * whole + fifths

DefaultWeight == Weight(1, 0)

----------------------------------------------------------------------------
(* _calculate_job_priority, lines 231-260 *)

BasePriority == 100

type_priorities ==
    [training |-> 50, inference |-> 10, batch_processing |-> 30,
     model_optimization |-> 40]

UnknownTypePriority == 50

urgency_modifiers ==
    [critical |-> 0 - 30, high |-> 0 - 15, normal |-> 0, low |-> 15]

HeavyPenalty == 20

Max(a, b) == IF a >= b THEN a ELSE b

Min(a, b) == IF a <= b THEN a ELSE b

IsHeavy_ge(resource_weight) == resource_weight >= Weight(2, 0)

\* resource_weight > 2.0
IsHeavy(resource_weight) == resource_weight > Weight(2, 0)

UrgencyModifier_swapped(urgency) ==
    IF urgency \in DOMAIN urgency_modifiers
    THEN 0 - urgency_modifiers[urgency] ELSE 0

\* urgency_modifiers.get(urgency, 0)
UrgencyModifier(urgency) ==
    IF urgency \in DOMAIN urgency_modifiers
    THEN urgency_modifiers[urgency] ELSE 0

\* type_priorities.get(job_type, 50)
TypePriority(job_type) ==
    IF job_type \in DOMAIN type_priorities
    THEN type_priorities[job_type] ELSE UnknownTypePriority

calculate_job_priority(job) ==
    LET job_type == Get(job, "type", "inference")
        urgency == Get(job, "urgency", "normal")
        resource_weight == Get(job, "resource_weight", DefaultWeight)
        priority == BasePriority + TypePriority(job_type)
                      + UrgencyModifier(urgency)
                      + (IF IsHeavy(resource_weight) THEN HeavyPenalty ELSE 0)
    IN  Max(1, priority)

----------------------------------------------------------------------------
(* The queue entries (priority, job_id, job) of line 214 and their order.   *)
(* heapq compares entries with <, which on tuples finds the first position  *)
(* where the two differ: the priorities as integers, the job ids as         *)
(* strings, and the job dictionaries not at all: dict < dict raises         *)
(* TypeError.  Two entries equal in all three positions compare as "not     *)
(* less" without an error.                                                  *)

\* f"job_{int(time.time())}", the id of a job that brings none (line 211)
GeneratedId == "job_0"

\* the job ids of the model, in the order of Python's str <
IdOrder == <<"a", "b", "c", "d", "e", "f", "i", GeneratedId>>

IdRank(job_id) == CHOOSE i \in 1..Len(IdOrder) : IdOrder[i] = job_id

\* str < str on job ids
StrLess(x, y) == IdRank(x) < IdRank(y)

Entry(priority, job_id, job) == <<priority, job_id, job>>

\* x < y: "lt" when it is, "ge" when it is not, "raise" for the TypeError of
\* dict < dict
EntryLess(x, y) ==
    IF x[1] # y[1] THEN (IF x[1] < y[1] THEN "lt" ELSE "ge")
    ELSE IF x[2] # y[2] THEN (IF StrLess(x[2], y[2]) THEN "lt" ELSE "ge")
    ELSE IF x[3] = y[3] THEN "ge"
    ELSE "raise"

Swap(heap, i, j) == [heap EXCEPT ![i] = heap[j], ![j] = heap[i]]

(* heapq's siftdown, siftup, heappush and heappop (the C implementation     *)
(* CPython runs), on positions counted from 1: the parent of pos is         *)
(* pos \div 2, its children 2*pos and 2*pos + 1.  Each returns the list as  *)
(* the call leaves it and whether a comparison raised; a raise leaves the   *)
(* list as it was at that comparison.                                       *)

RECURSIVE siftdown(_, _, _)
siftdown(heap, startpos, pos) ==
    IF pos <= startpos THEN [heap |-> heap, raised |-> FALSE]
    ELSE LET parentpos == pos \div 2
             cmp == EntryLess(heap[pos], heap[parentpos])
         IN  IF cmp = "raise" THEN [heap |-> heap, raised |-> TRUE]
             ELSE IF cmp = "ge" THEN [heap |-> heap, raised |-> FALSE]
             ELSE siftdown(Swap(heap, pos, parentpos), startpos, parentpos)

RECURSIVE bubble_up(_, _)
bubble_up(heap, pos) ==
    IF 2 * pos > Len(heap)
    THEN [heap |-> heap, pos |-> pos, raised |-> FALSE]
    ELSE LET childpos == 2 * pos
             cmp == IF childpos + 1 <= Len(heap)
                    THEN EntryLess(heap[childpos], heap[childpos + 1])
                    ELSE "lt"
         IN  IF cmp = "raise"
             THEN [heap |-> heap, pos |-> pos, raised |-> TRUE]
             ELSE LET smaller == IF cmp = "lt" THEN childpos ELSE childpos + 1
                  IN  bubble_up(Swap(heap, pos, smaller), smaller)

siftup(heap, pos) ==
    LET b == bubble_up(heap, pos)
    IN  IF b.raised THEN [heap |-> b.heap, raised |-> TRUE]
        ELSE siftdown(b.heap, pos, b.pos)

heappush(heap, item) ==
    LET appended == Append(heap, item)
    IN  siftdown(appended, 1, Len(appended))

\* item is the entry returned; when a comparison raises, nothing is
\* returned and the entry that was at the root is in the list no more
heappop(heap) ==
    LET lastelt == heap[Len(heap)]
        rest == SubSeq(heap, 1, Len(heap) - 1)
    IN  IF rest = <<>>
        THEN [heap |-> rest, item |-> lastelt, raised |-> FALSE]
        ELSE LET s == siftup([rest EXCEPT ![1] = lastelt], 1)
             IN  [heap |-> s.heap, item |-> rest[1], raised |-> s.raised]

----------------------------------------------------------------------------
(* The jobs the callers submit, and the usage readings the probe of lines   *)
(* 298-304 may return.                                                      *)

JobA == [id |-> "a", type |-> "inference", urgency |-> "critical",
         resource_weight |-> Weight(1, 0)]

JobB == [id |-> "b", type |-> "training", urgency |-> "low",
         resource_weight |-> Weight(1, 0)]

JobC == [id |-> "c", type |-> "inference", urgency |-> "normal",
         resource_weight |-> Weight(1, 0)]

\* the priority of JobC, a larger id
JobD == [id |-> "d", type |-> "model_optimization", urgency |-> "critical",
         resource_weight |-> Weight(1, 0)]

\* a heavy job
JobF == [id |-> "f", type |-> "batch_processing", urgency |-> "high",
         resource_weight |-> Weight(2, 1)]

\* the id and the priority of JobC, another dictionary
JobC2 == [id |-> "c", type |-> "inference", urgency |-> "normal",
          resource_weight |-> Weight(2, 0)]

JobE == [id |-> "e", type |-> "inference", urgency |-> "low",
         resource_weight |-> Weight(1, 0)]

JobI == [id |-> "i", type |-> "inference", urgency |-> "high",
         resource_weight |-> Weight(1, 0)]

(* A job argument that is a string instead of a dictionary. *)
JobText == Str("a")

Catalogue == {JobA, JobB, JobC, JobD, JobF, JobC2, JobText}

\* the jobs of the concurrent callers
ConcurrentJobs == {JobA, JobC, JobC2, JobF}

Reading(cpu, memory, gpu) == [cpu |-> cpu, memory |-> memory, gpu |-> gpu]

(* A probe of line 267 that raises (psutil.Error). *)
ProbeError == [raised |-> "Error"]

UsageReadings ==
    {Reading(20, 20, 20), Reading(75, 50, 50), Reading(80, 50, 50),
     Reading(50, 85, 50), Reading(50, 50, 90)}

ProbeOutcomes == UsageReadings \cup {ProbeError}

----------------------------------------------------------------------------
(* _can_execute_job (lines 306-317) with the default thresholds, and        *)
(* _update_resource_usage (lines 337-346)                                   *)

CpuThreshold == 80

MemoryThreshold == 85

GpuThreshold == 90

UsageCap == 100

can_execute_job_le(metrics) ==
    /\ metrics.cpu <= CpuThreshold
    /\ metrics.memory < MemoryThreshold
    /\ metrics.gpu < GpuThreshold

can_execute_job(metrics) ==
    /\ metrics.cpu < CpuThreshold
    /\ metrics.memory < MemoryThreshold
    /\ metrics.gpu < GpuThreshold

\* resource_impact * k, for a resource_impact in fifths
Impact(resource_impact, k) == (resource_impact * k) \div 5

update_resource_usage_unclamped(job, metrics) ==
    LET resource_impact == Get(job, "resource_weight", DefaultWeight)
    IN  [cpu    |-> metrics.cpu + Impact(resource_impact, 10),
         memory |-> metrics.memory + Impact(resource_impact, 5),
         gpu    |-> metrics.gpu + Impact(resource_impact, 15)]

update_resource_usage(job, metrics) ==
    LET resource_impact == Get(job, "resource_weight", DefaultWeight)
    IN  [cpu    |-> Min(UsageCap, metrics.cpu + Impact(resource_impact, 10)),
         memory |-> Min(UsageCap, metrics.memory + Impact(resource_impact, 5)),
         gpu    |-> Min(UsageCap, metrics.gpu + Impact(resource_impact, 15))]

----------------------------------------------------------------------------
(* The calls.  Call c is one schedule_job call; the calls begin in the      *)
(* order of their numbers and run concurrently.                             *)

NoJob == [none |-> TRUE]

NoEntry == <<>>

NoMetrics == Reading(0, 0, 0)

Pending == [returned |-> FALSE]

\* lines 292-296 and 219-225
Returned(job, queue, executed) ==
    [returned |-> TRUE, job_scheduled |-> TRUE,
     job_id |-> Get(job, "id", GeneratedId),
     priority |-> calculate_job_priority(job),
     queue_position |-> Len(queue),
     jobs_executed |-> Len(executed),
     executed_jobs |-> executed,
     remaining_queue_size |-> Len(queue)]

\* line 229
Failed(error) ==
    [returned |-> TRUE, job_scheduled |-> FALSE, error |-> error]

Init ==
    /\ job_queue = <<>>
    /\ getters = <<>>
    /\ pc = [c \in Calls |-> "new"]
    /\ call_job = [c \in Calls |-> NoJob]
    /\ current_metrics = [c \in Calls |-> NoMetrics]
    /\ executed_jobs = [c \in Calls |-> <<>>]
    /\ held = [c \in Calls |-> NoEntry]
    /\ result = [c \in Calls |-> Pending]
    /\ probe = [c \in Calls |-> NoMetrics]
    /\ started = <<>>
    /\ crashed = <<>>
    /\ dropped = <<>>
    /\ carbon_pc = "idle"
    /\ carbon_call = "none"
    /\ carbon_jobs = <<>>
    /\ green_windows = <<>>
    /\ next_job = 1
    /\ scheduled = <<>>
    /\ capacity_log = <<>>
    /\ carbon_result = Pending
    /\ exhausted = FALSE
    /\ resource_history = <<>>
    /\ clock = 0
    /\ sample = Pending
    /\ prediction = Pending
    /\ pending_requests = <<>>
    /\ timeout_tasks = 0
    /\ in_flight = {}
    /\ batch_stats = [total_batches |-> 0, avg_batch_size |-> 0,
                      throughput_improvement |-> 0]
    /\ requests_added = 0
    /\ add_result = [r \in 1..MaxRequests |-> Pending]
    /\ processed = <<>>
    /\ cold_start_cache = <<>>
    /\ scaling_metrics = [active_functions |-> 0, cold_starts |-> 0,
                          warm_hits |-> 0]
    /\ invocation = [k \in Invocations |-> [pc |-> "new"]]
    /\ auto_scale = [pc |-> "idle"]
    /\ scale_calls = 0
    /\ stopped = {}

LoopTest_noDrain(c, job, pcs, queue, metrics, executed) ==
    /\ job_queue' = queue
    /\ current_metrics' = [current_metrics EXCEPT ![c] = metrics]
    /\ executed_jobs' = [executed_jobs EXCEPT ![c] = executed]
    /\ pc' = [pcs EXCEPT ![c] = "done"]
    /\ result' = [result EXCEPT ![c] = Returned(job, queue, executed)]

LoopTest_dropping(c, job, pcs, queue, metrics, executed) ==
    /\ current_metrics' = [current_metrics EXCEPT ![c] = metrics]
    /\ executed_jobs' = [executed_jobs EXCEPT ![c] = executed]
    /\ IF queue # <<>> /\ can_execute_job(metrics)
       THEN /\ job_queue' = queue
            /\ pc' = [pcs EXCEPT ![c] = "get"]
            /\ result' = result
       ELSE /\ job_queue' = (IF queue = <<>> THEN queue ELSE heappop(queue).heap)
            /\ pc' = [pcs EXCEPT ![c] = "done"]
            /\ result' = [result EXCEPT ![c] = Returned(job, queue, executed)]

(* The test of the while loop of line 269 with the queue, the metrics and   *)
(* the executed list as they are at the test, for call c whose job is job:  *)
(* the call goes on to the get of line 271, or leaves the loop and returns. *)
LoopTest(c, job, pcs, queue, metrics, executed) ==
    /\ job_queue' = queue
    /\ current_metrics' = [current_metrics EXCEPT ![c] = metrics]
    /\ executed_jobs' = [executed_jobs EXCEPT ![c] = executed]
    /\ IF queue # <<>> /\ can_execute_job(metrics)
       THEN /\ pc' = [pcs EXCEPT ![c] = "get"]
            /\ result' = result
       ELSE /\ pc' = [pcs EXCEPT ![c] = "done"]
            /\ result' = [result EXCEPT ![c] = Returned(job, queue, executed)]

\* Queue._wakeup_next(self._getters): the first blocked get is made runnable
WakeNext(pcs, waiting) ==
    IF waiting = <<>> THEN pcs ELSE [pcs EXCEPT ![Head(waiting)] = "woken"]

Without(waiting, c) == SelectSeq(waiting, LAMBDA g : g # c)

Submitted == {call_job[c] : c \in {d \in Calls : pc[d] # "new"}}

(* schedule_job up to its first suspension (lines 209-217, 262-271): the    *)
(* priority, the put, the probe and the first test of the loop.  A job      *)
(* that is no dictionary (job.get, line 235), a put whose heappush raises   *)
(* and a probe that raises leave through the handler of lines 227-229; the  *)
(* put of the last one has happened.                                        *)
Call(c, job, reading) ==
    /\ pc[c] = "new"
    /\ \A d \in Calls : d < c => pc[d] # "new"
    /\ call_job' = [call_job EXCEPT ![c] = job]
    /\ IF ~IsDict(job)
       THEN /\ pc' = [pc EXCEPT ![c] = "done"]
            /\ result' = [result EXCEPT ![c] = Failed("AttributeError")]
            /\ UNCHANGED <<job_queue, getters, current_metrics, executed_jobs,
                           probe>>
       ELSE
       LET job_priority == calculate_job_priority(job)
           job_id == Get(job, "id", GeneratedId)
           put == heappush(job_queue, Entry(job_priority, job_id, job))
       IN  IF put.raised
           THEN /\ job_queue' = put.heap
                /\ pc' = [pc EXCEPT ![c] = "done"]
                /\ result' = [result EXCEPT ![c] = Failed("TypeError")]
                /\ UNCHANGED <<getters, current_metrics, executed_jobs, probe>>
           ELSE IF reading = ProbeError
           THEN /\ job_queue' = put.heap
                /\ getters' = (IF getters = <<>> THEN getters ELSE Tail(getters))
                /\ pc' = [WakeNext(pc, getters) EXCEPT ![c] = "done"]
                /\ result' = [result EXCEPT ![c] = Failed("Error")]
                /\ probe' = [probe EXCEPT ![c] = reading]
                /\ UNCHANGED <<current_metrics, executed_jobs>>
           ELSE /\ getters' = (IF getters = <<>> THEN getters ELSE Tail(getters))
                /\ probe' = [probe EXCEPT ![c] = reading]
                /\ LoopTest(c, job, WakeNext(pc, getters), put.heap, reading, <<>>)
    /\ UNCHANGED <<held, started, crashed, dropped>>
    /\ UNCHANGED <<carbonVars, orchestratorVars, servingVars>>

(* The get of line 271 when the queue holds an entry: get_nowait pops it    *)
(* and the drain starts to execute it (line 275).  A heappop that raises    *)
(* is caught at line 289 and the loop goes on.                              *)
GetItem(c) ==
    /\ pc[c] \in {"get", "woken"}
    /\ job_queue # <<>>
    /\ LET pop == heappop(job_queue)
       IN  IF pop.raised
           THEN /\ LoopTest(c, call_job[c], pc, pop.heap, current_metrics[c],
                            executed_jobs[c])
                /\ dropped' = Append(dropped, [call |-> c, job |-> pop.item[3]])
                /\ UNCHANGED <<held, started>>
           ELSE /\ job_queue' = pop.heap
                /\ pc' = [pc EXCEPT ![c] = "exec"]
                /\ held' = [held EXCEPT ![c] = pop.item]
                /\ started' = Append(started, [call |-> c, job |-> pop.item[3]])
                /\ UNCHANGED <<current_metrics, executed_jobs, result, dropped>>
    /\ UNCHANGED <<getters, call_job, probe, crashed>>
    /\ UNCHANGED <<carbonVars, orchestratorVars, servingVars>>

(* The get of line 271 when the queue is empty: Queue.get appends a getter  *)
(* and waits for a put or for the timeout.                                  *)
GetBlock(c) ==
    /\ pc[c] \in {"get", "woken"}
    /\ job_queue = <<>>
    /\ pc' = [pc EXCEPT ![c] = "wait"]
    /\ getters' = Append(getters, c)
    /\ UNCHANGED <<job_queue, call_job, current_metrics, executed_jobs, held,
                   result, probe, started, crashed, dropped>>
    /\ UNCHANGED <<carbonVars, orchestratorVars, servingVars>>

GetTimeout_never(c) ==
    /\ pc[c] \in {"wait", "woken"}
    /\ FALSE
    /\ UNCHANGED vars

(* The timeout of wait_for: the blocked get is cancelled, TimeoutError      *)
(* leaves the loop (lines 287-288) and the call returns.  A get that a put  *)
(* has woken and that is cancelled before it runs hands the wake-up on      *)
(* when the queue is not empty.                                             *)
GetTimeout(c) ==
    /\ pc[c] \in {"wait", "woken"}
    /\ LET handOn == pc[c] = "woken" /\ job_queue # <<>> /\ getters # <<>>
           left == IF handOn THEN Tail(getters) ELSE Without(getters, c)
           pcs == IF handOn THEN WakeNext(pc, getters) ELSE pc
       IN  /\ getters' = left
           /\ pc' = [pcs EXCEPT ![c] = "done"]
    /\ result' = [result EXCEPT ![c] =
                      Returned(call_job[c], job_queue, executed_jobs[c])]
    /\ UNCHANGED <<job_queue, call_job, current_metrics, executed_jobs, held,
                   probe, started, crashed, dropped>>
    /\ UNCHANGED <<carbonVars, orchestratorVars, servingVars>>

(* _execute_job returns (lines 275-285): the job is appended to             *)
(* executed_jobs, the metrics are updated and the loop is tested again.     *)
ExecDone(c) ==
    /\ pc[c] = "exec"
    /\ LoopTest(c, call_job[c], pc, job_queue,
                update_resource_usage(held[c][3], current_metrics[c]),
                Append(executed_jobs[c], held[c][2]))
    /\ held' = [held EXCEPT ![c] = NoEntry]
    /\ UNCHANGED <<getters, call_job, probe, started, crashed, dropped>>
    /\ UNCHANGED <<carbonVars, orchestratorVars, servingVars>>

(* The jobs whose execution may raise.  Execution is keyed by job.type     *)
(* (line 321); the model lets the execution of one type fail or succeed.    *)
MayRaise(job) == Get(job, "type", "inference") = "batch_processing"

ExecFail_abort(c) ==
    /\ pc[c] = "exec"
    /\ MayRaise(held[c][3])
    /\ pc' = [pc EXCEPT ![c] = "done"]
    /\ result' = [result EXCEPT ![c] = Failed("RuntimeError")]
    /\ held' = [held EXCEPT ![c] = NoEntry]
    /\ crashed' = Append(crashed, held[c][3])
    /\ UNCHANGED <<job_queue, getters, call_job, current_metrics,
                   executed_jobs, probe, started, dropped>>
    /\ UNCHANGED <<carbonVars, orchestratorVars, servingVars>>

(* The execution raises: the handler of lines 289-290 logs it and the loop  *)
(* is tested again, with the metrics and executed_jobs as they were.        *)
ExecFail(c) ==
    /\ pc[c] = "exec"
    /\ MayRaise(held[c][3])
    /\ LoopTest(c, call_job[c], pc, job_queue, current_metrics[c],
                executed_jobs[c])
    /\ held' = [held EXCEPT ![c] = NoEntry]
    /\ crashed' = Append(crashed, held[c][3])
    /\ UNCHANGED <<getters, call_job, probe, started, dropped>>
    /\ UNCHANGED <<carbonVars, orchestratorVars, servingVars>>

Next ==
    \/ \E c \in Calls, job \in ConcurrentJobs \ Submitted,
          reading \in ProbeOutcomes : Call(c, job, reading)
    \/ \E c \in Calls : GetItem(c)
    \/ \E c \in Calls : GetBlock(c)
    \/ \E c \in Calls : GetTimeout(c)
    \/ \E c \in Calls : ExecDone(c)
    \/ \E c \in Calls : ExecFail(c)

Spec == Init /\ [][Next]_vars

(* One caller that awaits each call before it makes the next. *)
CallAlone(c, job, reading) ==
    /\ \A d \in Calls : pc[d] \in {"new", "done"}
    /\ Call(c, job, reading)

NextSeq ==
    \/ \E c \in Calls, job \in Catalogue \ Submitted,
          reading \in ProbeOutcomes : CallAlone(c, job, reading)
    \/ \E c \in Calls : GetItem(c)
    \/ \E c \in Calls : ExecDone(c)
    \/ \E c \in Calls : ExecFail(c)

SpecSeq == Init /\ [][NextSeq]_vars

(* The event loop runs every task that can run, the timer of wait_for       *)
(* fires and the sleep of _execute_job ends.                                *)
Fairness ==
    \A c \in Calls :
        /\ WF_vars(GetItem(c) \/ GetBlock(c))
        /\ WF_vars(GetTimeout(c))
        /\ WF_vars(ExecDone(c) \/ ExecFail(c))

SpecFair == Spec /\ Fairness

(* A caller that goes on for ever: it awaits a call and makes the next one, *)
(* with a job that is not in the queue.  The record of the call that has    *)
(* returned is cleared before the next call; the queue and the last probe   *)
(* stay.                                                                    *)
LiveJobs == {JobA, JobB, JobC, JobD}

QueuedJobs == {job_queue[i][3] : i \in DOMAIN job_queue}

NextCall ==
    /\ pc[1] = "done"
    /\ pc' = [pc EXCEPT ![1] = "new"]
    /\ call_job' = [call_job EXCEPT ![1] = NoJob]
    /\ current_metrics' = [current_metrics EXCEPT ![1] = NoMetrics]
    /\ executed_jobs' = [executed_jobs EXCEPT ![1] = <<>>]
    /\ result' = [result EXCEPT ![1] = Pending]
    /\ started' = <<>>
    /\ crashed' = <<>>
    /\ dropped' = <<>>
    /\ UNCHANGED <<job_queue, getters, held, probe>>
    /\ UNCHANGED <<carbonVars, orchestratorVars, servingVars>>

NextLive ==
    \/ \E job \in LiveJobs \ QueuedJobs, reading \in UsageReadings :
           CallAlone(1, job, reading)
    \/ GetItem(1)
    \/ ExecDone(1)
    \/ NextCall

SpecLive == Init /\ [][NextLive]_vars /\ WF_vars(NextLive)

(* The same caller with jobs of seven priorities, two of them with the same *)
(* priority and the same id, and a probe that reads either ample capacity   *)
(* or none: a backlog of up to seven entries builds up and is drained.      *)
BacklogJobs == {JobA, JobB, JobC, JobC2, JobE, JobF, JobI}

BacklogReadings == {Reading(20, 20, 20), Reading(80, 50, 50)}

NextBacklog ==
    \/ \E job \in BacklogJobs \ QueuedJobs, reading \in BacklogReadings :
           CallAlone(1, job, reading)
    \/ GetItem(1)
    \/ ExecDone(1)
    \/ ExecFail(1)
    \/ NextCall

SpecBacklog == Init /\ [][NextBacklog]_vars

----------------------------------------------------------------------------
(* The priority of schedule_job over the job descriptors: a caller submits  *)
(* a descriptor, awaits the call, and submits the descriptor again with     *)
(* another urgency.  Every key but the id may be missing; "video_render"    *)
(* is a type and "urgent" an urgency that the tables do not hold.           *)

JobTypes ==
    {"training", "inference", "batch_processing", "model_optimization",
     "video_render"}

Urgencies == {"critical", "high", "normal", "low"}

Weights == {Weight(1, 0), Weight(2, 0), Weight(2, 1), Weight(3, 0)}

Optional(key, values) == {key :> v : v \in values} \cup {<<>>}

Descriptors ==
    {("id" :> "a") @@ t @@ u @@ w :
        t \in Optional("type", JobTypes),
        u \in Optional("urgency", Urgencies \cup {"urgent"}),
        w \in Optional("resource_weight", Weights)}

SameBut(job, other, key) ==
    /\ job # other
    /\ \A k \in (DOMAIN job \cup DOMAIN other) \ {key} :
           k \in DOMAIN job /\ k \in DOMAIN other /\ job[k] = other[k]

PriorityReadings == {Reading(20, 20, 20), Reading(80, 50, 50)}

NextPriority ==
    \/ \E job \in Descriptors, reading \in PriorityReadings :
           CallAlone(1, job, reading)
    \/ \E job \in {d \in Descriptors : SameBut(d, call_job[1], "urgency")},
          reading \in PriorityReadings : CallAlone(2, job, reading)
    \/ \E c \in Calls : GetItem(c)
    \/ \E c \in Calls : ExecDone(c)
    \/ \E c \in Calls : ExecFail(c)

SpecPriority == Init /\ [][NextPriority]_vars

Scheduled(c) == result[c].returned /\ result[c].job_scheduled

\* the claim's order of the urgencies
UrgencyRank(urgency) ==
    CASE urgency = "critical" -> 1
      [] urgency = "high" -> 2
      [] urgency = "normal" -> 3
      [] urgency = "low" -> 4

HasUrgency(job) == "urgency" \in DOMAIN job /\ job.urgency \in Urgencies

(* C1: of two jobs that differ only in urgency, schedule_job gives the      *)
(* strictly smaller priority to the one whose urgency comes first in        *)
(* critical, high, normal, low: for every type, known or not, and every     *)
(* resource_weight.                                                         *)
C1_UrgencyOrdersPriority ==
    \A c \in Calls, d \in Calls :
        ( /\ Scheduled(c) /\ Scheduled(d)
          /\ SameBut(call_job[c], call_job[d], "urgency")
          /\ HasUrgency(call_job[c]) /\ HasUrgency(call_job[d])
          /\ UrgencyRank(call_job[c].urgency) < UrgencyRank(call_job[d].urgency) )
        => result[c].priority < result[d].priority

C1_Witness ==
    /\ Scheduled(1) /\ Scheduled(2)
    /\ call_job[1] = [id |-> "a", type |-> "video_render", urgency |-> "low",
                      resource_weight |-> Weight(3, 0)]
    /\ call_job[2] = [id |-> "a", type |-> "video_render", urgency |-> "normal",
                      resource_weight |-> Weight(3, 0)]
    /\ result[2].priority < result[1].priority

\* the claim's table of the type offsets
C2_TypeOffset(job_type) ==
    CASE job_type = "training" -> 50
      [] job_type = "inference" -> 10
      [] job_type = "batch_processing" -> 30
      [] job_type = "model_optimization" -> 40
      [] OTHER -> 50

\* the claim's table of the urgency modifiers
C2_UrgencyModifier(urgency) ==
    CASE urgency = "critical" -> 0 - 30
      [] urgency = "high" -> 0 - 15
      [] urgency = "normal" -> 0
      [] urgency = "low" -> 15

(* C2: the priority schedule_job reports for a job that states its type,    *)
(* its urgency and its resource_weight is max(1, 100 + type offset +        *)
(* urgency modifier + heavy penalty), the penalty being 20 exactly when the *)
(* weight is above 2.0; the entry enqueued carries the same priority.       *)
C2_PriorityFormula ==
    \A c \in Calls :
        ( /\ Scheduled(c)
          /\ DOMAIN call_job[c] = {"id", "type", "urgency", "resource_weight"}
          /\ HasUrgency(call_job[c]) )
        => LET job == call_job[c]
               expected == 100 + C2_TypeOffset(job.type)
                             + C2_UrgencyModifier(job.urgency)
                             + (IF job.resource_weight > Weight(2, 0)
                                THEN 20 ELSE 0)
           IN  /\ result[c].priority = (IF expected < 1 THEN 1 ELSE expected)
               /\ \A i \in DOMAIN job_queue :
                      job_queue[i][3] = job => job_queue[i][1] = result[c].priority

C2_Witness ==
    /\ Scheduled(1)
    /\ call_job[1] = [id |-> "a", type |-> "training", urgency |-> "low",
                      resource_weight |-> Weight(2, 0)]
    /\ result[1].priority = 165
    /\ Len(job_queue) = 1

----------------------------------------------------------------------------
(* Admission *)

\* the claim's thresholds: all three strictly below
C3_Below(metrics) ==
    /\ "cpu" \in DOMAIN metrics
    /\ metrics.cpu < 80 /\ metrics.memory < 85 /\ metrics.gpu < 90

StartedBy(c) == SelectSeq(started, LAMBDA r : r.call = c)

(* C3: a drain is past the test of its loop (about to dequeue, waiting for  *)
(* an entry or executing one) only while its current usage is strictly      *)
(* below 80, 85 and 90 for cpu, memory and gpu; a call whose probe reads a  *)
(* resource at or above its threshold dequeues and executes nothing.        *)
C3_AdmissionStrict ==
    \A c \in Calls :
        /\ pc[c] \in {"get", "wait", "woken", "exec"}
               => C3_Below(current_metrics[c])
        /\ (pc[c] # "new" /\ ~C3_Below(probe[c]))
               => /\ pc[c] = "done"
                  /\ StartedBy(c) = <<>>
                  /\ Scheduled(c) => result[c].jobs_executed = 0

C3_Witness ==
    \E c \in Calls, d \in Calls :
        /\ Scheduled(c)
        /\ probe[c] = Reading(80, 50, 50)
        /\ result[c].jobs_executed = 0
        /\ job_queue # <<>>
        /\ Scheduled(d)
        /\ result[d].jobs_executed >= 1

----------------------------------------------------------------------------
(* Order of execution *)

\* the put of call c went through
Enqueued(c) ==
    pc[c] # "new" /\ ~(result[c].returned /\ ~result[c].job_scheduled)

StartedJobs == [i \in DOMAIN started |-> started[i].job]

StartPos(job) ==
    IF \E i \in DOMAIN started : started[i].job = job
    THEN CHOOSE i \in DOMAIN started : started[i].job = job
    ELSE 0

(* C4: of two enqueued jobs with the same priority, the one submitted       *)
(* first is the first to be dequeued for execution, whatever the job ids.   *)
C4_FifoAmongEqualPriority ==
    \A c \in Calls, d \in Calls :
        ( /\ c < d /\ Enqueued(c) /\ Enqueued(d)
          /\ calculate_job_priority(call_job[c])
                 = calculate_job_priority(call_job[d])
          /\ StartPos(call_job[d]) > 0 )
        => /\ StartPos(call_job[c]) > 0
           /\ StartPos(call_job[c]) < StartPos(call_job[d])

\* a, b and c submitted in this order, each call awaited, every probe below
\* the thresholds
C5_Scenario ==
    /\ call_job[1] = JobA /\ call_job[2] = JobB /\ call_job[3] = JobC
    /\ \A c \in 1..3 : pc[c] = "done" /\ C3_Below(probe[c])

(* C5 as stated: the three jobs are executed in the order a, c, b.          *)
C5_PriorityOrder ==
    C5_Scenario =>
        /\ Len(started) >= 3
        /\ SubSeq(StartedJobs, 1, 3) = <<JobA, JobC, JobB>>

(* C5 as amended: the three jobs are executed in the order a, b, c, each by *)
(* the call that submitted it.                                              *)
C5_SubmissionOrder ==
    C5_Scenario =>
        /\ Len(started) >= 3
        /\ SubSeq(StartedJobs, 1, 3) = <<JobA, JobB, JobC>>
        /\ \A c \in 1..3 :
               /\ started[c].call = c
               /\ result[c].executed_jobs = <<call_job[c].id>>
               /\ result[c].priority = <<80, 165, 110>>[c]

C5_Witness ==
    /\ C5_Scenario
    /\ Len(started) >= 3
    /\ SubSeq(StartedJobs, 1, 3) = <<JobA, JobB, JobC>>

(* C6: if from some moment on every probe reads below the thresholds, the   *)
(* repeated calls empty the queue again and again: no backlog stays.        *)
C6_BacklogDrains ==
    <>[](\A c \in Calls : C3_Below(probe[c])) => []<>(job_queue = <<>>)

----------------------------------------------------------------------------
(* The queue and the drains *)

EntriesKept(before, after) ==
    \A i \in DOMAIN before : \E j \in DOMAIN after : after[j] = before[i]

(* C7: a step in which a drain stops at a failed admission test, with       *)
(* entries in the queue, removes none of them: the queue is as it was, or   *)
(* as the call's own put left it.  Every step that takes an entry out of    *)
(* the queue is the dequeue of a drain whose usage passed the test.         *)
C7_DenialKeepsQueue ==
    [][ /\ \A c \in Calls :
              ( /\ pc[c] # "done" /\ pc'[c] = "done"
                /\ result'[c].job_scheduled
                /\ job_queue' # <<>>
                /\ ~C3_Below(current_metrics'[c]) )
              => /\ EntriesKept(job_queue, job_queue')
                 /\ Len(job_queue') =
                        Len(job_queue) + (IF pc[c] = "new" THEN 1 ELSE 0)
                 /\ started' = started
        /\ ~EntriesKept(job_queue, job_queue')
              => \E c \in Calls :
                     /\ pc[c] \in {"get", "woken"}
                     /\ C3_Below(current_metrics[c])
                     /\ \/ Len(started') = Len(started) + 1
                        \/ Len(dropped') = Len(dropped) + 1
      ]_vars

C7_Witness ==
    \E c \in Calls :
        /\ Scheduled(c)
        /\ result[c].jobs_executed >= 1
        /\ ~C3_Below(current_metrics[c])
        /\ result[c].remaining_queue_size >= 1
        /\ Len(job_queue) >= 1

CrashedJobs == {crashed[i] : i \in DOMAIN crashed}

(* C8: when the execution of a dequeued job raises, the call goes on: to    *)
(* the next dequeue if the queue holds an entry and the usage passes the    *)
(* test, to a normal return otherwise; the queue is not touched.  A job     *)
(* whose execution raised is in the queue no more and was dequeued once.    *)
C8_FailureIsSkipped ==
    /\ [](\A job \in CrashedJobs :
              /\ job \notin QueuedJobs
              /\ Cardinality({i \in DOMAIN started : started[i].job = job}) = 1)
    /\ [][ \A c \in Calls :
               ( /\ pc[c] = "exec"
                 /\ crashed' = Append(crashed, held[c][3]) )
               => /\ job_queue' = job_queue
                  /\ held'[c] = NoEntry
                  /\ IF job_queue # <<>> /\ C3_Below(current_metrics[c])
                     THEN pc'[c] = "get"
                     ELSE pc'[c] = "done" /\ result'[c].job_scheduled
      ]_vars

C8_Witness ==
    \E i \in DOMAIN started, j \in DOMAIN started :
        /\ i < j
        /\ started[i].call = started[j].call
        /\ started[i].job \in CrashedJobs
        /\ pc[started[i].call] = "done"
        /\ Scheduled(started[i].call)

(* C9: every job whose put went through is in the queue or was dequeued by  *)
(* exactly one drain: none is dequeued twice and none is lost.              *)
C9_NoLossNoDuplicate ==
    \A c \in Calls :
        Enqueued(c) =>
            Cardinality({i \in DOMAIN job_queue : job_queue[i][3] = call_job[c]})
              + Cardinality({i \in DOMAIN started : started[i].job = call_job[c]})
              = 1

DroppedBy(c) == SelectSeq(dropped, LAMBDA r : r.call = c)

(* C10: every call that has begun returns, and a drain dequeues no more     *)
(* often than there are entries that were put in the queue.                 *)
C10_EveryCallReturns ==
    /\ [](\A c \in Calls :
              Len(StartedBy(c)) + Len(DroppedBy(c))
                  <= Cardinality({d \in Calls : pc[d] # "new"}))
    /\ \A c \in Calls : (pc[c] # "new") ~> (pc[c] = "done" /\ result[c].returned)

C10_Witness ==
    \E c \in Calls, d \in Calls :
        /\ c # d
        /\ pc[c] = "wait"
        /\ pc[d] = "exec"
        /\ job_queue = <<>>

----------------------------------------------------------------------------
(* CarbonAwareScheduler *)

MaxJobs == 3

\* line 416
GreenThreshold == 350

\* line 422
WindowCapacity == 10

\* line 460
ImmediateIntensity == 450

\* line 432
DefaultDuration == 1

Hours == 0..23

SolarHours == 9..17

(* The draws of lines 410-414, one per hour: the intensity is 250 +- 50 in  *)
(* the solar hours and 450 +- 50 in the others, the renewable share 70 or   *)
(* 30 +- 10.  Three forecasts: level, falling through the day, and at the   *)
(* ends of the ranges.                                                      *)
Draw(intensity, renewable_percentage) ==
    [intensity |-> intensity, renewable_percentage |-> renewable_percentage]

ForecastLevel ==
    [hour \in Hours |->
        IF hour \in SolarHours THEN Draw(250, 70) ELSE Draw(450, 30)]

ForecastFalling ==
    [hour \in Hours |->
        IF hour \in SolarHours THEN Draw(300 - 10 * (hour - 9), 60 + hour - 9)
                               ELSE Draw(500 - 4 * hour, 20 + hour)]

ForecastEnds ==
    [hour \in Hours |->
        IF hour \in SolarHours
        THEN Draw(IF hour % 2 = 0 THEN 200 ELSE 300, 80)
        ELSE Draw(IF hour % 2 = 0 THEN 400 ELSE 500, 40)]

Forecasts == {ForecastLevel, ForecastFalling, ForecastEnds}

Window_halfCapacity(hour, draw) ==
    [start_hour |-> hour, end_hour |-> hour + 1,
     carbon_intensity |-> draw.intensity,
     renewable_percentage |-> draw.renewable_percentage,
     capacity |-> WindowCapacity \div 2]

Window(hour, draw) ==
    [start_hour |-> hour, end_hour |-> hour + 1,
     carbon_intensity |-> draw.intensity,
     renewable_percentage |-> draw.renewable_percentage,
     capacity |-> WindowCapacity]

(* sorted(green_windows, key=carbon_intensity), line 425: stable. *)
RECURSIVE InsertByIntensity(_, _)
InsertByIntensity(sorted, window) ==
    IF sorted = <<>> THEN <<window>>
    ELSE IF Head(sorted).carbon_intensity <= window.carbon_intensity
         THEN <<Head(sorted)>> \o InsertByIntensity(Tail(sorted), window)
         ELSE <<window>> \o sorted

RECURSIVE SortByIntensity(_)
SortByIntensity(windows) ==
    IF windows = <<>> THEN <<>>
    ELSE InsertByIntensity(
             SortByIntensity(SubSeq(windows, 1, Len(windows) - 1)),
             windows[Len(windows)])

find_green_windows_unsorted(forecast) ==
    LET hourly == [i \in 1..24 |-> Window(i - 1, forecast[i - 1])]
    IN  SelectSeq(hourly, LAMBDA w : w.carbon_intensity < GreenThreshold)

(* _find_green_windows, lines 402-425 *)
find_green_windows(forecast) ==
    LET hourly == [i \in 1..24 |-> Window(i - 1, forecast[i - 1])]
        green == SelectSeq(hourly, LAMBDA w : w.carbon_intensity < GreenThreshold)
    IN  SortByIntensity(green)

(* The jobs of a carbon scheduling call: the job at position i has the id   *)
(* "j<i>"; estimated_duration_hours may be missing, a number of hours or a  *)
(* string; the first job states a carbon_priority.                          *)
CarbonIds == <<"j1", "j2", "j3", "j4">>

DurationValues == {Num(0 - 2), Num(4), Num(10), Num(11), Str("long")}

CarbonJob(i, duration) ==
    [id |-> CarbonIds[i]] @@ duration
      @@ (IF i = 1 THEN [carbon_priority |-> "high"] ELSE <<>>)

JobLists ==
    UNION { { [i \in 1..n |-> CarbonJob(i, durations[i])] :
                durations \in [1..n -> Optional("estimated_duration_hours",
                                                DurationValues)] } :
            n \in 0..MaxJobs }

(* The windows a direct caller of _schedule_in_green_windows hands over:    *)
(* one window of capacity 10.                                               *)
SingleWindow == <<Window(12, Draw(250, 70))>>

(* The intensity _get_carbon_intensity reports (lines 381-400): by day or   *)
(* by night.                                                                *)
CurrentIntensities == {300, 450}

FirstFit_any(windows, job_duration) ==
    LET fits == {i \in DOMAIN windows : windows[i].capacity > 0}
    IN  IF fits = {} THEN 0 ELSE CHOOSE i \in fits : \A j \in fits : i <= j

FirstFit_strict(windows, job_duration) ==
    LET fits == {i \in DOMAIN windows : windows[i].capacity > job_duration}
    IN  IF fits = {} THEN 0 ELSE CHOOSE i \in fits : \A j \in fits : i <= j

(* The window loop of lines 436-448: the first window whose capacity is at  *)
(* least the duration, 0 when there is none.                                *)
FirstFit(windows, job_duration) ==
    LET fits == {i \in DOMAIN windows : windows[i].capacity >= job_duration}
    IN  IF fits = {} THEN 0 ELSE CHOOSE i \in fits : \A j \in fits : i <= j

ScheduledEntry(job, window) ==
    [job_id |-> Get(job, "id", "None"),
     scheduled_start |-> window.start_hour,
     scheduled_end |-> window.end_hour,
     carbon_intensity |-> window.carbon_intensity,
     renewable_percentage |-> window.renewable_percentage,
     carbon_priority |-> Get(job, "carbon_priority", "normal")]

RECURSIVE SumIntensity(_)
SumIntensity(entries) ==
    IF entries = <<>> THEN 0
    ELSE Head(entries).carbon_intensity + SumIntensity(Tail(entries))

calculate_carbon_savings_unclamped(scheduled_jobs) ==
    LET total_jobs == Len(scheduled_jobs)
        immediate_emissions == total_jobs * ImmediateIntensity
        green_emissions == SumIntensity(scheduled_jobs)
        savings == immediate_emissions - green_emissions
    IN  IF total_jobs = 0
        THEN [total_savings_kg_co2 |-> 0, percentage_reduction |-> 0]
        ELSE [total_savings_kg_co2 |-> savings,
              percentage_reduction |-> (savings * 100) \div immediate_emissions,
              immediate_emissions_kg_co2 |-> immediate_emissions,
              green_emissions_kg_co2 |-> green_emissions,
              jobs_scheduled |-> total_jobs]

(* _calculate_carbon_savings, lines 452-476 (in grams and whole percent) *)
calculate_carbon_savings(scheduled_jobs) ==
    LET total_jobs == Len(scheduled_jobs)
        immediate_emissions == total_jobs * ImmediateIntensity
        green_emissions == SumIntensity(scheduled_jobs)
        savings == immediate_emissions - green_emissions
        percentage_reduction ==
            IF immediate_emissions > 0
            THEN (savings * 100) \div immediate_emissions ELSE 0
    IN  IF total_jobs = 0
        THEN [total_savings_kg_co2 |-> 0, percentage_reduction |-> 0]
        ELSE [total_savings_kg_co2 |-> Max(0, savings),
              percentage_reduction |-> Max(0, percentage_reduction),
              immediate_emissions_kg_co2 |-> immediate_emissions,
              green_emissions_kg_co2 |-> green_emissions,
              jobs_scheduled |-> total_jobs]

CarbonFailed_propagated == [returned |-> FALSE, raised |-> "TypeError"]

CarbonFailed ==
    [returned |-> TRUE, carbon_scheduling_completed |-> FALSE,
     error |-> "TypeError"]

CarbonRaised == [returned |-> FALSE, raised |-> "TypeError"]

CarbonCompleted_fresh(current_intensity, scheduled_jobs, windows) ==
    [returned |-> TRUE, carbon_scheduling_completed |-> TRUE,
     current_carbon_intensity |-> current_intensity,
     scheduled_jobs |-> scheduled_jobs,
     carbon_savings |-> calculate_carbon_savings(scheduled_jobs),
     green_windows |->
         [i \in DOMAIN windows |->
             [windows[i] EXCEPT !.capacity = WindowCapacity]]]

CarbonCompleted(current_intensity, scheduled_jobs, windows) ==
    [returned |-> TRUE, carbon_scheduling_completed |-> TRUE,
     current_carbon_intensity |-> current_intensity,
     scheduled_jobs |-> scheduled_jobs,
     carbon_savings |-> calculate_carbon_savings(scheduled_jobs),
     green_windows |-> windows]

GetCarbonOptimalSchedule_keeping(jobs, forecast, current_intensity) ==
    /\ carbon_pc = "idle"
    /\ carbon_pc' = "packing"
    /\ carbon_call' = [method |-> "get_carbon_optimal_schedule",
                       current_intensity |-> current_intensity]
    /\ carbon_jobs' = jobs
    /\ green_windows' = (IF green_windows = <<>>
                         THEN find_green_windows(forecast) ELSE green_windows)
    /\ next_job' = 1
    /\ scheduled' = <<>>
    /\ capacity_log' = <<>>
    /\ carbon_result' = Pending
    /\ UNCHANGED <<exhausted, schedulerVars, orchestratorVars, servingVars>>

(* get_carbon_optimal_schedule up to the packing (lines 356-364): the       *)
(* current intensity and the green windows of the forecast.                 *)
GetCarbonOptimalSchedule(jobs, forecast, current_intensity) ==
    /\ carbon_pc = "idle"
    /\ carbon_pc' = "packing"
    /\ carbon_call' = [method |-> "get_carbon_optimal_schedule",
                       current_intensity |-> current_intensity]
    /\ carbon_jobs' = jobs
    /\ green_windows' = find_green_windows(forecast)
    /\ next_job' = 1
    /\ scheduled' = <<>>
    /\ capacity_log' = <<>>
    /\ carbon_result' = Pending
    /\ UNCHANGED <<exhausted, schedulerVars, orchestratorVars, servingVars>>

(* _schedule_in_green_windows called with the caller's own windows. *)
ScheduleInGreenWindows(jobs, windows) ==
    /\ carbon_pc = "idle"
    /\ carbon_pc' = "packing"
    /\ carbon_call' = [method |-> "_schedule_in_green_windows"]
    /\ carbon_jobs' = jobs
    /\ green_windows' = windows
    /\ next_job' = 1
    /\ scheduled' = <<>>
    /\ capacity_log' = <<>>
    /\ carbon_result' = Pending
    /\ UNCHANGED <<exhausted, schedulerVars, orchestratorVars, servingVars>>

PackJob_rejecting ==
    /\ carbon_pc = "packing"
    /\ next_job <= Len(carbon_jobs)
    /\ LET job == carbon_jobs[next_job]
           job_duration == Get(job, "estimated_duration_hours",
                               Num(DefaultDuration))
           fit == IF IsNum(job_duration)
                  THEN FirstFit(green_windows, job_duration.num) ELSE 0
       IN  IF fit = 0
           THEN /\ carbon_pc' = "done"
                /\ carbon_result' = CarbonFailed
                /\ UNCHANGED <<green_windows, next_job, scheduled, capacity_log>>
           ELSE /\ capacity_log' =
                       Append(capacity_log,
                              [i \in DOMAIN green_windows |->
                                  green_windows[i].capacity])
                /\ next_job' = next_job + 1
                /\ scheduled' =
                       Append(scheduled, ScheduledEntry(job, green_windows[fit]))
                /\ green_windows' =
                       [green_windows EXCEPT
                           ![fit].capacity = @ - job_duration.num]
                /\ UNCHANGED <<carbon_pc, carbon_result>>
    /\ UNCHANGED <<carbon_call, carbon_jobs>>
    /\ UNCHANGED <<exhausted, schedulerVars, orchestratorVars, servingVars>>

(* One iteration of the loop of line 431.  Comparing a capacity with a      *)
(* duration that is not a number raises TypeError: get_carbon_optimal_      *)
(* schedule turns it into its failure result (lines 377-379), a direct      *)
(* caller of _schedule_in_green_windows gets the exception.                 *)
PackJob ==
    /\ carbon_pc = "packing"
    /\ next_job <= Len(carbon_jobs)
    /\ LET job == carbon_jobs[next_job]
           job_duration == Get(job, "estimated_duration_hours",
                               Num(DefaultDuration))
       IN  IF green_windows # <<>> /\ ~IsNum(job_duration)
           THEN /\ carbon_pc' = "done"
                /\ carbon_result' =
                       (IF carbon_call.method = "get_carbon_optimal_schedule"
                        THEN CarbonFailed ELSE CarbonRaised)
                /\ UNCHANGED <<green_windows, next_job, scheduled, capacity_log>>
           ELSE LET fit == IF green_windows = <<>> THEN 0
                           ELSE FirstFit(green_windows, job_duration.num)
                IN  /\ capacity_log' =
                           Append(capacity_log,
                                  [i \in DOMAIN green_windows |->
                                      green_windows[i].capacity])
                    /\ next_job' = next_job + 1
                    /\ IF fit = 0
                       THEN UNCHANGED <<scheduled, green_windows>>
                       ELSE /\ scheduled' =
                                   Append(scheduled,
                                          ScheduledEntry(job, green_windows[fit]))
                            /\ green_windows' =
                                   [green_windows EXCEPT
                                       ![fit].capacity = @ - job_duration.num]
                    /\ UNCHANGED <<carbon_pc, carbon_result>>
    /\ UNCHANGED <<carbon_call, carbon_jobs>>
    /\ UNCHANGED <<exhausted, schedulerVars, orchestratorVars, servingVars>>

(* The loop has ended: _schedule_in_green_windows returns scheduled (line   *)
(* 450) and get_carbon_optimal_schedule its result (lines 367-375).         *)
PackDone ==
    /\ carbon_pc = "packing"
    /\ next_job > Len(carbon_jobs)
    /\ carbon_pc' = "done"
    /\ carbon_result' =
           (IF carbon_call.method = "get_carbon_optimal_schedule"
            THEN CarbonCompleted(carbon_call.current_intensity, scheduled,
                                 green_windows)
            ELSE [returned |-> TRUE, scheduled |-> scheduled])
    /\ UNCHANGED <<carbon_call, carbon_jobs, green_windows, next_job,
                   scheduled, capacity_log>>
    /\ UNCHANGED <<exhausted, schedulerVars, orchestratorVars, servingVars>>

(* The scheduled lists a direct caller of _calculate_carbon_savings hands   *)
(* over: up to two entries, of windows at 250, 450 or 500 gCO2/kWh.         *)
SavingsEntries ==
    {ScheduledEntry(CarbonJob(2, Num(4)), Window(12, Draw(intensity, 30))) :
        intensity \in {250, 450, 500}}

SavingsInputs ==
    {<<>>} \cup {<<e>> : e \in SavingsEntries}
           \cup {<<e, f>> : e \in SavingsEntries, f \in SavingsEntries}

(* _calculate_carbon_savings called with the caller's own list. *)
CalculateCarbonSavings(entries) ==
    /\ carbon_pc = "idle"
    /\ carbon_pc' = "done"
    /\ carbon_call' = [method |-> "_calculate_carbon_savings"]
    /\ scheduled' = entries
    /\ carbon_result' = [returned |-> TRUE,
                         carbon_savings |-> calculate_carbon_savings(entries)]
    /\ UNCHANGED <<carbon_jobs, green_windows, next_job, capacity_log>>
    /\ UNCHANGED <<exhausted, schedulerVars, orchestratorVars, servingVars>>

NextCarbon ==
    \/ \E jobs \in JobLists, forecast \in Forecasts,
          current_intensity \in CurrentIntensities :
           GetCarbonOptimalSchedule(jobs, forecast, current_intensity)
    \/ \E jobs \in JobLists : ScheduleInGreenWindows(jobs, SingleWindow)
    \/ \E entries \in SavingsInputs : CalculateCarbonSavings(entries)
    \/ PackJob
    \/ PackDone

SpecCarbon == Init /\ [][NextCarbon]_vars

----------------------------------------------------------------------------
(* Carbon packing *)

Duration(job) == Get(job, "estimated_duration_hours", Num(DefaultDuration)).num

(* C11: no window's capacity is ever negative, and every step of the        *)
(* packing that assigns a job or changes a window takes one window whose    *)
(* capacity is at least the job's duration, lowers that capacity by the     *)
(* duration and leaves every other window as it was.                        *)
C11_CapacityNeverNegative ==
    /\ [](\A i \in DOMAIN green_windows : green_windows[i].capacity >= 0)
    /\ [][ ( /\ carbon_pc = "packing"
             /\ \/ scheduled' # scheduled
                \/ green_windows' # green_windows )
           => \E i \in DOMAIN green_windows :
                  LET d == Duration(carbon_jobs[next_job])
                  IN  /\ green_windows[i].capacity >= d
                      /\ green_windows' =
                             [green_windows EXCEPT ![i].capacity = @ - d]
                      /\ Len(scheduled') = Len(scheduled) + 1
                      /\ scheduled'[Len(scheduled')].scheduled_start =
                             green_windows[i].start_hour
         ]_vars

C11_Witness ==
    /\ carbon_pc = "done"
    /\ Len(scheduled) >= 2
    /\ \E i \in DOMAIN green_windows : green_windows[i].capacity = 0
    /\ \E i \in DOMAIN green_windows :
           green_windows[i].capacity \in 1..(WindowCapacity - 1)

ScheduledIds(entries) == {entries[i].job_id : i \in DOMAIN entries}

RECURSIVE SumDurations(_, _)
SumDurations(jobs, positions) ==
    IF positions = {} THEN 0
    ELSE LET i == CHOOSE p \in positions : TRUE
         IN  Duration(jobs[i]) + SumDurations(jobs, positions \ {i})

DirectPacking ==
    /\ carbon_pc = "done"
    /\ carbon_call.method = "_schedule_in_green_windows"
    /\ carbon_result.returned

(* C12: packing into one window of capacity 10, a job is in the returned    *)
(* list exactly when its duration is at most 10 less the durations of the   *)
(* jobs before it that are in the list; of durations 4, 4, 4 the first two  *)
(* are in the list and the third is not.                                    *)
C12_SingleWindowPacking ==
    DirectPacking =>
        \A i \in DOMAIN carbon_jobs :
            LET before == {k \in 1..(i - 1) :
                              carbon_jobs[k].id
                                  \in ScheduledIds(carbon_result.scheduled)}
            IN  carbon_jobs[i].id \in ScheduledIds(carbon_result.scheduled)
                <=> Duration(carbon_jobs[i])
                        <= WindowCapacity - SumDurations(carbon_jobs, before)

C12_Witness ==
    /\ DirectPacking
    /\ Len(carbon_jobs) = 3
    /\ \A i \in 1..3 : Duration(carbon_jobs[i]) = 4
    /\ ScheduledIds(carbon_result.scheduled) = {"j1", "j2"}
    /\ Len(carbon_result.scheduled) = 2

PublicCarbonCall ==
    /\ carbon_pc = "done"
    /\ carbon_call.method = "get_carbon_optimal_schedule"

AllNumeric(jobs) ==
    \A i \in DOMAIN jobs :
        IsNum(Get(jobs[i], "estimated_duration_hours", Num(DefaultDuration)))

Fitted(i) ==
    \E w \in DOMAIN capacity_log[i] :
        capacity_log[i][w] >= Duration(carbon_jobs[i])

(* C13: a get_carbon_optimal_schedule call whose jobs all state a usable    *)
(* duration reports completion, and its scheduled_jobs holds one entry for  *)
(* each job that found a window with enough capacity and none for any       *)
(* other job.                                                               *)
C13_OneEntryPerAssignedJob ==
    (PublicCarbonCall /\ AllNumeric(carbon_jobs)) =>
        /\ carbon_result.carbon_scheduling_completed
        /\ \A i \in DOMAIN carbon_jobs :
               Cardinality({k \in DOMAIN carbon_result.scheduled_jobs :
                               carbon_result.scheduled_jobs[k].job_id
                                   = carbon_jobs[i].id})
                 = (IF Fitted(i) THEN 1 ELSE 0)
        /\ ScheduledIds(carbon_result.scheduled_jobs)
               \subseteq {carbon_jobs[i].id : i \in DOMAIN carbon_jobs}

C13_Witness ==
    /\ PublicCarbonCall
    /\ carbon_result.carbon_scheduling_completed
    /\ Len(carbon_jobs) = 3
    /\ Duration(carbon_jobs[2]) = 11
    /\ ScheduledIds(carbon_result.scheduled_jobs) = {"j1", "j3"}

(* C14: every savings figure that is returned has total_savings_kg_co2 and  *)
(* percentage_reduction at least 0, also for an empty list and for windows  *)
(* at or above the 450 of immediate execution.                              *)
C14_SavingsNotNegative ==
    (carbon_pc = "done" /\ "carbon_savings" \in DOMAIN carbon_result) =>
        /\ carbon_result.carbon_savings.total_savings_kg_co2 >= 0
        /\ carbon_result.carbon_savings.percentage_reduction >= 0

C14_Witness ==
    /\ carbon_pc = "done"
    /\ "carbon_savings" \in DOMAIN carbon_result
    /\ Len(scheduled) = 2
    /\ \A i \in DOMAIN scheduled :
           scheduled[i].carbon_intensity > ImmediateIntensity
    /\ carbon_result.carbon_savings.total_savings_kg_co2 = 0
    /\ carbon_result.carbon_savings.green_emissions_kg_co2
           > carbon_result.carbon_savings.immediate_emissions_kg_co2

----------------------------------------------------------------------------
(* NeuralResourceOrchestrator *)

MaxSamples == 1002

\* line 59
HistoryLimit == 1000

\* line 71
MinHistory == 10

\* line 181
ConfidentHistory == 50

(* What the probes of lines 39-46 read, in whole percent; the readings      *)
(* come round with the clock.  gpu is 0 on a host without a GPU.            *)
MonitorReadings ==
    << [cpu |-> 20, memory |-> 40, gpu |-> 0, storage |-> 50, network |-> 1000],
       [cpu |-> 55, memory |-> 60, gpu |-> 30, storage |-> 50, network |-> 2000],
       [cpu |-> 95, memory |-> 97, gpu |-> 80, storage |-> 51, network |-> 3000] >>

ProbeAt(time) == MonitorReadings[(time % Len(MonitorReadings)) + 1]

ResourceMetrics(cpu, memory, gpu, storage, network, time) ==
    [returned |-> TRUE, cpu_usage |-> cpu, memory_usage |-> memory,
     gpu_usage |-> gpu, storage_usage |-> storage, network_io |-> network,
     timestamp |-> time]

MonitorRaised == [returned |-> FALSE, raised |-> "Exception"]

Evicted_newest(history) ==
    IF Len(history) > HistoryLimit
    THEN SubSeq(history, 1, Len(history) - 1) ELSE history

(* lines 59-60: pop(0) once the history is longer than 1000 *)
Evicted(history) ==
    IF Len(history) > HistoryLimit THEN Tail(history) ELSE history

(* monitor_resources when every probe answers (lines 38-62).  The clock     *)
(* ticks with every sample that is taken.                                   *)
MonitorResources ==
    /\ clock < MaxSamples
    /\ clock' = clock + 1
    /\ LET reading == ProbeAt(clock')
           metrics == ResourceMetrics(reading.cpu, reading.memory, reading.gpu,
                                      reading.storage, reading.network, clock')
       IN  /\ resource_history' = Evicted(Append(resource_history, metrics))
           /\ sample' = metrics
    /\ prediction' = Pending
    /\ UNCHANGED <<schedulerVars, carbonVars, servingVars>>

MonitorProbeFails_appending ==
    /\ sample' = ResourceMetrics(0, 0, 0, 0, 0, clock)
    /\ resource_history' = Evicted(Append(resource_history, sample'))
    /\ prediction' = Pending
    /\ UNCHANGED clock
    /\ UNCHANGED <<schedulerVars, carbonVars, servingVars>>

MonitorProbeFails_raising ==
    /\ sample' = MonitorRaised
    /\ prediction' = Pending
    /\ UNCHANGED <<resource_history, clock>>
    /\ UNCHANGED <<schedulerVars, carbonVars, servingVars>>

(* monitor_resources when a probe raises: the handler of lines 64-66        *)
(* returns the zero sample; line 58 was not reached.                        *)
MonitorProbeFails ==
    /\ sample' = ResourceMetrics(0, 0, 0, 0, 0, clock)
    /\ prediction' = Pending
    /\ UNCHANGED <<resource_history, clock>>
    /\ UNCHANGED <<schedulerVars, carbonVars, servingVars>>

Horizons == {30, 60}

Clamp(value) == Max(0, Min(100, value))

(* _neural_predict, lines 116-133: the latest measurement plus the mean     *)
(* step of the last five, scaled by horizon / 30 (rounded down to whole     *)
(* percent).                                                                *)
neural_predict(recent, horizon) ==
    LET last == recent[Len(recent)]
        fifth == recent[Len(recent) - 4]
        Future(field) ==
            Clamp(last[field] + ((last[field] - fifth[field]) * horizon) \div 120)
    IN  [cpu_usage |-> Future("cpu_usage"),
         memory_usage |-> Future("memory_usage"),
         gpu_usage |-> Future("gpu_usage"),
         storage_usage |-> Future("storage_usage")]

(* _generate_resource_recommendations, lines 135-177 *)
generate_resource_recommendations(predictions) ==
    (IF predictions.cpu_usage > 85
     THEN <<[resource |-> "CPU", action |-> "scale_up"]>>
     ELSE IF predictions.cpu_usage < 30
          THEN <<[resource |-> "CPU", action |-> "scale_down"]>>
          ELSE <<>>)
    \o (IF predictions.memory_usage > 90
        THEN <<[resource |-> "Memory", action |-> "scale_up"]>> ELSE <<>>)
    \o (IF predictions.gpu_usage > 80
        THEN <<[resource |-> "GPU", action |-> "optimize"]>> ELSE <<>>)

RECURSIVE SumSeq(_)
SumSeq(numbers) ==
    IF numbers = <<>> THEN 0 ELSE Head(numbers) + SumSeq(Tail(numbers))

(* _calculate_prediction_confidence, lines 179-190, in thousandths *)
calculate_prediction_confidence(history) ==
    IF Len(history) < ConfidentHistory THEN 600
    ELSE LET recent_cpu ==
                 [i \in 1..20 |-> history[Len(history) - 20 + i].cpu_usage]
             squares == [i \in 1..20 |-> recent_cpu[i] * recent_cpu[i]]
             mean == SumSeq(recent_cpu) \div 20
             cpu_variance == SumSeq(squares) \div 20 - mean * mean
         IN  Min(950, Max(500, 1000 - cpu_variance))

PredictGate_atMost(history) == Len(history) <= MinHistory

(* line 71 *)
PredictGate(history) == Len(history) < MinHistory

(* predict_resource_needs, lines 68-97 *)
PredictResourceNeeds(time_horizon_minutes) ==
    /\ prediction' =
           (IF PredictGate(resource_history)
            THEN [returned |-> TRUE, prediction_available |-> FALSE,
                  reason |-> "Insufficient historical data"]
            ELSE LET recent_metrics ==
                         SubSeq(resource_history, Len(resource_history) - 9,
                                Len(resource_history))
                     predictions ==
                         neural_predict(recent_metrics, time_horizon_minutes)
                 IN  [returned |-> TRUE, prediction_available |-> TRUE,
                      time_horizon_minutes |-> time_horizon_minutes,
                      predicted_usage |-> predictions,
                      recommendations |->
                          generate_resource_recommendations(predictions),
                      confidence |->
                          calculate_prediction_confidence(resource_history)])
    /\ sample' = Pending
    /\ UNCHANGED <<resource_history, clock>>
    /\ UNCHANGED <<schedulerVars, carbonVars, servingVars>>

NextOrchestrator ==
    \/ MonitorResources
    \/ MonitorProbeFails
    \/ \E time_horizon_minutes \in Horizons :
           PredictResourceNeeds(time_horizon_minutes)

SpecOrchestrator == Init /\ [][NextOrchestrator]_vars

----------------------------------------------------------------------------
(* The history of samples *)

(* C15: the history never holds more than 1000 samples; it holds the most   *)
(* recent samples in the order they were taken, the newest last: the        *)
(* sample taken at tick t is at position t while the history is not full    *)
(* and moves down by one with every sample after that, so after 1001        *)
(* samples the length is 1000 and the first sample is gone.                 *)
C15_HistoryKeepsLastThousand ==
    /\ Len(resource_history) <= HistoryLimit
    /\ Len(resource_history) = Min(clock, HistoryLimit)
    /\ \A i \in DOMAIN resource_history :
           /\ resource_history[i].timestamp
                  = clock - Len(resource_history) + i
           /\ resource_history[i].cpu_usage
                  = ProbeAt(resource_history[i].timestamp).cpu

C15_Witness ==
    /\ clock = HistoryLimit + 1
    /\ Len(resource_history) = HistoryLimit
    /\ resource_history[1].timestamp = 2
    /\ resource_history[HistoryLimit].timestamp = HistoryLimit + 1

(* C16: a predict_resource_needs call answers prediction_available = FALSE  *)
(* when the history holds fewer than 10 samples and TRUE when it holds 10   *)
(* or more, and it leaves the history as it was.                            *)
C16_PredictionGate ==
    /\ [](prediction.returned =>
              (prediction.prediction_available
                   <=> Len(resource_history) >= 10))
    /\ [][prediction'.returned => resource_history' = resource_history]_vars

C16_Witness ==
    /\ prediction.returned
    /\ prediction.prediction_available
    /\ Len(resource_history) = 10

ZeroSample(metrics) ==
    /\ metrics.cpu_usage = 0
    /\ metrics.memory_usage = 0
    /\ metrics.gpu_usage = 0
    /\ metrics.storage_usage = 0
    /\ metrics.network_io = 0

(* C17: every monitor_resources call returns a sample: the one it has just  *)
(* stored in the history, or, when a probe failed, a sample whose cpu,      *)
(* memory, gpu, storage and network values are all zero.                    *)
C17_FailedProbeGivesZeros ==
    sample # Pending =>
        /\ sample.returned
        /\ \/ /\ resource_history # <<>>
              /\ resource_history[Len(resource_history)] = sample
           \/ ZeroSample(sample)

C17_Witness ==
    /\ sample.returned
    /\ ZeroSample(sample)
    /\ Len(resource_history) >= 1
    /\ resource_history[Len(resource_history)] # sample

----------------------------------------------------------------------------
(* The public operations *)

(* The two schedulers share no state: one of them is used, from the         *)
(* initial state of the other.                                              *)
NextPublic ==
    \/ carbon_pc = "idle" /\ NextSeq
    \/ (\A c \in Calls : pc[c] = "new") /\ NextCarbon

SpecPublic == Init /\ [][NextPublic]_vars

FailedInDrain(c) ==
    \/ \E i \in DOMAIN started :
           started[i].call = c /\ started[i].job \in CrashedJobs
    \/ DroppedBy(c) # <<>>

(* C18 as stated: a schedule_job call inside which something failed, the    *)
(* drain included, returns job_scheduled = FALSE.                           *)
C18_AnyFailureTagsFailed ==
    \A c \in Calls :
        (pc[c] = "done" /\ FailedInDrain(c)) => ~result[c].job_scheduled

(* C18 as amended: every call returns a tagged result.  A schedule_job      *)
(* call whose priority computation, enqueue or usage probe failed returns   *)
(* job_scheduled = FALSE with an error; a call whose probe succeeded        *)
(* returns job_scheduled = TRUE, also when an execution or a dequeue        *)
(* failed inside its drain.  get_carbon_optimal_schedule reports completion *)
(* unless the packing failed, and then returns its failure result with an   *)
(* error.                                                                   *)
C18_TaggedResults ==
    /\ \A c \in Calls :
           pc[c] = "done" =>
               /\ result[c].returned
               /\ IF probe[c] \in UsageReadings
                  THEN result[c].job_scheduled
                  ELSE ~result[c].job_scheduled /\ "error" \in DOMAIN result[c]
    /\ PublicCarbonCall =>
           /\ carbon_result.returned
           /\ carbon_result.carbon_scheduling_completed
                  <=> AllNumeric(carbon_jobs)
           /\ ~carbon_result.carbon_scheduling_completed
                  => "error" \in DOMAIN carbon_result

C18_Witness ==
    \E c \in Calls, d \in Calls, e \in Calls :
        /\ pc[c] = "done" /\ pc[d] = "done" /\ pc[e] = "done"
        /\ probe[c] = ProbeError /\ ~result[c].job_scheduled
        /\ ~IsDict(call_job[d]) /\ ~result[d].job_scheduled
        /\ FailedInDrain(e) /\ result[e].job_scheduled

Malformed(job) ==
    \/ "type" \notin DOMAIN job
    \/ "urgency" \in DOMAIN job /\ job.urgency \notin Urgencies

(* C19: a call with a malformed descriptor (no type, or an urgency that is  *)
(* not critical, high, normal or low) returns job_scheduled = FALSE, and    *)
(* the descriptor is neither enqueued nor executed.                         *)
C19_MalformedRejected ==
    \A c \in Calls :
        (pc[c] # "new" /\ Malformed(call_job[c])) =>
            /\ call_job[c] \notin QueuedJobs
            /\ StartPos(call_job[c]) = 0
            /\ pc[c] = "done" => ~result[c].job_scheduled

----------------------------------------------------------------------------
(* The order of the dequeues *)

QueuedPriorities == {job_queue[i][1] : i \in DOMAIN job_queue}

ExecutedPriorities(c) ==
    LET done == SelectSeq(StartedBy(c), LAMBDA r : r.job \notin CrashedJobs)
    IN  [i \in DOMAIN done |-> calculate_job_priority(done[i].job)]

(* C20: the entry a drain has just dequeued has the lowest priority number  *)
(* of all entries that were in the queue, and the jobs in the               *)
(* executed_jobs of a single caller's result are in non-decreasing order    *)
(* of priority.                                                             *)
C20_DequeuesLowest ==
    /\ pc[1] = "exec" => \A p \in QueuedPriorities : held[1][1] <= p
    /\ Scheduled(1) =>
           \A i \in DOMAIN ExecutedPriorities(1), j \in DOMAIN ExecutedPriorities(1) :
               i < j => ExecutedPriorities(1)[i] <= ExecutedPriorities(1)[j]

----------------------------------------------------------------------------
(* The usage a drain accumulates (lines 267, 285, 337-346).  One caller     *)
(* awaits each call; the probe reads ample capacity, a usage just below     *)
(* the thresholds, or none, and the jobs weigh 1.0, 2.0, 2.2 and 3.0.       *)

JobH == [id |-> "h", type |-> "training", urgency |-> "normal",
         resource_weight |-> Weight(3, 0)]

DrainJobs == {JobA, JobC2, JobE, JobF, JobH}

DrainReadings ==
    {Reading(20, 20, 20), Reading(79, 50, 79), Reading(80, 50, 50)}

NextDrain ==
    \/ \E job \in DrainJobs \ QueuedJobs, reading \in DrainReadings :
           CallAlone(1, job, reading)
    \/ GetItem(1)
    \/ ExecDone(1)
    \/ ExecFail(1)
    \/ NextCall

SpecDrain == Init /\ [][NextDrain]_vars

\* the claim's usage after a job of weight w (in fifths): 10 w, 5 w, 15 w
C21_Usage(metrics, w) ==
    [cpu    |-> IF metrics.cpu + 2 * w > 100 THEN 100 ELSE metrics.cpu + 2 * w,
     memory |-> IF metrics.memory + w > 100 THEN 100 ELSE metrics.memory + w,
     gpu    |-> IF metrics.gpu + 3 * w > 100 THEN 100 ELSE metrics.gpu + 3 * w]

C21_FailedResult(r) == r.returned /\ ~r.job_scheduled

(* C21: when a drain has executed a job of resource_weight w, the usage its *)
(* next admission test reads is min(100, cpu + 10 w), min(100, memory +     *)
(* 5 w), min(100, gpu + 15 w) of the usage before, and the drain goes on    *)
(* exactly if the queue holds an entry and that usage is below the          *)
(* thresholds; a schedule_job call that reaches its drain starts from the   *)
(* reading of its own probe, whatever an earlier drain accumulated.         *)
C21_UsageAccumulatesInDrain ==
    [][\A c \in Calls :
        /\ (pc[c] = "exec" /\ executed_jobs'[c] # executed_jobs[c]) =>
              LET after == C21_Usage(current_metrics[c],
                                     held[c][3].resource_weight)
              IN  /\ current_metrics'[c] = after
                  /\ pc'[c] = "get" <=>
                        (job_queue' # <<>> /\ C3_Below(after))
        /\ (pc[c] = "new" /\ pc'[c] # "new"
              /\ ~C21_FailedResult(result'[c])) =>
              /\ probe'[c] \in DrainReadings
              /\ current_metrics'[c] = probe'[c]
              /\ executed_jobs'[c] = <<>>]_vars

\* a drain executed two jobs and the usage of the gpu reached the cap
C21_Witness ==
    /\ Len(executed_jobs[1]) >= 2
    /\ current_metrics[1].gpu = UsageCap
    /\ probe[1] = Reading(20, 20, 20)

----------------------------------------------------------------------------
(* The order of the packing *)

C22_Fitting(job) ==
    {i \in DOMAIN green_windows : green_windows[i].capacity >= Duration(job)}

(* C22: the packing takes the jobs in the order of the list, and a step     *)
(* that schedules a job adds one entry for it, made from a window that is   *)
(* of the lowest carbon intensity among the windows whose capacity at that  *)
(* moment is at least the job's duration: the entry has that window's       *)
(* intensity, start hour and end hour, and that window gives the capacity.  *)
C22_GreedyFirstFit ==
    [][(carbon_pc = "packing" /\ scheduled' # scheduled) =>
          LET job == carbon_jobs[next_job]
              entry == scheduled'[Len(scheduled')]
          IN  /\ scheduled' = Append(scheduled, entry)
              /\ entry.job_id = job.id
              /\ next_job' = next_job + 1
              /\ \E i \in C22_Fitting(job) :
                    /\ \A j \in C22_Fitting(job) :
                          green_windows[i].carbon_intensity
                              <= green_windows[j].carbon_intensity
                    /\ entry.carbon_intensity = green_windows[i].carbon_intensity
                    /\ entry.scheduled_start = green_windows[i].start_hour
                    /\ entry.scheduled_end = green_windows[i].end_hour
                    /\ green_windows'[i].capacity =
                           green_windows[i].capacity - Duration(job)]_vars

\* the cleanest window is full and the next job went to a dirtier one
C22_Witness ==
    /\ carbon_pc = "done"
    /\ carbon_call.method = "get_carbon_optimal_schedule"
    /\ Len(scheduled) = 2
    /\ scheduled[1].carbon_intensity < scheduled[2].carbon_intensity
    /\ scheduled[1].job_id = "j1" /\ scheduled[2].job_id = "j3"

----------------------------------------------------------------------------
(* The windows of a call *)

(* C23: the windows get_carbon_optimal_schedule builds for a call are       *)
(* hourly windows of a forecast intensity strictly below 350, in ascending  *)
(* order of intensity, each of capacity 10; with the forecast of the source *)
(* they are exactly the nine windows that start at the hours 9 to 17.       *)
C23_GreenWindowsOfCall ==
    [][(carbon_pc = "idle" /\ carbon_pc' = "packing"
           /\ carbon_call'.method = "get_carbon_optimal_schedule") =>
          /\ \A i \in DOMAIN green_windows' :
                /\ green_windows'[i].carbon_intensity < 350
                /\ green_windows'[i].capacity = 10
                /\ green_windows'[i].end_hour = green_windows'[i].start_hour + 1
          /\ \A i, j \in DOMAIN green_windows' :
                i < j => green_windows'[i].carbon_intensity
                             <= green_windows'[j].carbon_intensity
          /\ Len(green_windows') = 9
          /\ {green_windows'[i].start_hour : i \in DOMAIN green_windows'}
                 = 9..17]_vars

\* a call has built its windows from the forecast that falls through the day
C23_Witness ==
    /\ carbon_pc = "packing"
    /\ carbon_call.method = "get_carbon_optimal_schedule"
    /\ next_job = 1
    /\ Len(green_windows) = 9
    /\ green_windows[1].start_hour = 17
    /\ green_windows[9].start_hour = 9

----------------------------------------------------------------------------
(* Calls of the carbon scheduler one after another.  A call of             *)
(* get_carbon_optimal_schedule has returned its schedule and its locals     *)
(* are gone; the caller still holds the windows list of the result when it  *)
(* makes another call.                                                      *)

CarbonReturn ==
    /\ carbon_pc = "done"
    /\ "green_windows" \in DOMAIN carbon_result
    /\ carbon_pc' = "idle"
    /\ exhausted' =
           (\/ exhausted
            \/ \E i \in DOMAIN carbon_result.green_windows :
                   carbon_result.green_windows[i].capacity = 0)
    /\ carbon_call' = "none"
    /\ carbon_jobs' = <<>>
    /\ next_job' = 1
    /\ scheduled' = <<>>
    /\ capacity_log' = <<>>
    /\ carbon_result' = Pending
    /\ UNCHANGED green_windows
    /\ UNCHANGED <<schedulerVars, orchestratorVars, servingVars>>

NextCarbonCalls ==
    \/ \E jobs \in JobLists, forecast \in Forecasts,
          current_intensity \in CurrentIntensities :
           GetCarbonOptimalSchedule(jobs, forecast, current_intensity)
    \/ PackJob
    \/ PackDone
    \/ CarbonReturn

SpecCarbonCalls == Init /\ [][NextCarbonCalls]_vars

(* C24: every get_carbon_optimal_schedule call starts its packing with all  *)
(* its windows at capacity 10, whatever the calls before it consumed: its   *)
(* first job finds every window at 10, and a first job of a duration of at  *)
(* most 10 is scheduled.                                                    *)
C24_CapacityNotCarried ==
    /\ [][(carbon_pc = "idle" /\ carbon_pc' = "packing"
              /\ carbon_call'.method = "get_carbon_optimal_schedule") =>
             /\ green_windows' # <<>>
             /\ \A i \in DOMAIN green_windows' :
                    green_windows'[i].capacity = 10]_vars
    /\ [](PublicCarbonCall /\ carbon_result.carbon_scheduling_completed
            /\ carbon_jobs # <<>> =>
             /\ \A w \in DOMAIN capacity_log[1] : capacity_log[1][w] = 10
             /\ Duration(carbon_jobs[1]) <= 10 =>
                    "j1" \in ScheduledIds(carbon_result.scheduled_jobs))

\* after a call that used up a window, a call places a job of 10 hours
C24_Witness ==
    /\ exhausted
    /\ PublicCarbonCall
    /\ carbon_result.carbon_scheduling_completed
    /\ carbon_jobs # <<>> /\ scheduled # <<>>
    /\ Duration(carbon_jobs[1]) = 10
    /\ scheduled[1].job_id = "j1"
    /\ scheduled[1].scheduled_start = green_windows[1].start_hour

----------------------------------------------------------------------------
(* Conservation of the jobs *)

\* the put of call c returned: the job was enqueued
C25_PutReturned(c) ==
    /\ pc[c] # "new"
    /\ ~(/\ result[c].returned
         /\ ~result[c].job_scheduled
         /\ result[c].error \in {"AttributeError", "TypeError"})

C25_EnqueuedJobs == {call_job[c] : c \in {d \in Calls : C25_PutReturned(d)}}

C25_Executing == {held[c][3] : c \in {d \in Calls : held[d] # NoEntry}}

C25_Failed == CrashedJobs \ C25_Executing

C25_Completed ==
    {started[i].job : i \in DOMAIN started} \ (C25_Executing \cup C25_Failed)

(* C25: at every moment of any interleaving of schedule_job calls, every    *)
(* job that was enqueued is in exactly one of four places: in the queue,    *)
(* in execution, completed, or failed in its execution; the enqueued jobs   *)
(* are as many as the queued, executing, completed and failed ones.         *)
C25_JobConservation ==
    /\ \A job \in C25_EnqueuedJobs :
          Cardinality({place \in {"queued", "executing", "completed", "failed"} :
              \/ place = "queued" /\ job \in QueuedJobs
              \/ place = "executing" /\ job \in C25_Executing
              \/ place = "completed" /\ job \in C25_Completed
              \/ place = "failed" /\ job \in C25_Failed}) = 1
    /\ Cardinality(C25_EnqueuedJobs) =
           Cardinality(C25_EnqueuedJobs \cap QueuedJobs)
             + Cardinality(C25_EnqueuedJobs \cap C25_Executing)
             + Cardinality(C25_EnqueuedJobs \cap C25_Completed)
             + Cardinality(C25_EnqueuedJobs \cap C25_Failed)

----------------------------------------------------------------------------
(* The queue after a call that failed *)

(* C26: a schedule_job call that returns job_scheduled = False leaves the   *)
(* queue as it was when the call began: the queue is the same before and    *)
(* after the step in which the call fails, and the job is not in it.        *)
C26_FailureLeavesQueue ==
    [][\A c \in Calls :
          (pc[c] = "new" /\ pc'[c] = "done"
             /\ result'[c].returned /\ ~result'[c].job_scheduled) =>
              /\ job_queue' = job_queue
              /\ call_job'[c] \notin {job_queue'[i][3] : i \in DOMAIN job_queue'}
      ]_vars

----------------------------------------------------------------------------
(* The windows of the result *)

\* the jobs of the call whose entry in the result lies in the window
C27_AssignedTo(window) ==
    {i \in DOMAIN carbon_jobs :
        \E k \in DOMAIN carbon_result.scheduled_jobs :
            /\ carbon_result.scheduled_jobs[k].job_id = carbon_jobs[i].id
            /\ carbon_result.scheduled_jobs[k].scheduled_start
                   = window.start_hour}

(* C27: in the result of a completed get_carbon_optimal_schedule call each  *)
(* window of green_windows shows the capacity left after the packing: 10    *)
(* less that capacity is the sum of the durations of the scheduled jobs     *)
(* that lie in the window, and when every duration is positive the          *)
(* capacity is between 0 and 10.                                            *)
C27_ReturnedCapacityConserved ==
    (PublicCarbonCall /\ carbon_result.carbon_scheduling_completed) =>
        \A w \in DOMAIN carbon_result.green_windows :
            LET window == carbon_result.green_windows[w]
            IN  /\ 10 - window.capacity
                       = SumDurations(carbon_jobs, C27_AssignedTo(window))
                /\ (\A i \in DOMAIN carbon_jobs : Duration(carbon_jobs[i]) > 0)
                       => window.capacity \in 0..10

\* two jobs of 4 hours in the cleanest window, one of 10 hours in the next
C27_Witness ==
    /\ PublicCarbonCall
    /\ carbon_result.carbon_scheduling_completed
    /\ Len(carbon_result.scheduled_jobs) = 3
    /\ carbon_result.green_windows[1].capacity = 2
    /\ carbon_result.green_windows[2].capacity = 0
    /\ carbon_result.green_windows[3].capacity = 10

----------------------------------------------------------------------------
(* The history and the failed probes *)

(* C28: a monitor_resources call whose probe fails returns the zero sample  *)
(* and leaves the history as it was: no zero sample is ever in the          *)
(* history, the history holds as many samples as probes succeeded (up to    *)
(* 1000), and predict_resource_needs predicts exactly when 10 probes have   *)
(* succeeded, however many have failed.                                     *)
C28_FailedProbeKeepsHistory ==
    /\ [][(sample' # Pending /\ sample'.returned /\ ZeroSample(sample'))
             => resource_history' = resource_history]_vars
    /\ [](/\ \A i \in DOMAIN resource_history :
                 ~ZeroSample(resource_history[i])
          /\ Len(resource_history) = Min(clock, 1000)
          /\ prediction.returned =>
                 (prediction.prediction_available <=> clock >= 10))

\* a probe failed when the history was full: the oldest sample is still there
C28_Witness ==
    /\ sample.returned
    /\ ZeroSample(sample)
    /\ Len(resource_history) = HistoryLimit
    /\ clock = HistoryLimit
    /\ resource_history[1].timestamp = 1

----------------------------------------------------------------------------
(* MicroBatchingEngine (hierarchical_serving.py, lines 339-413).  The       *)
(* requests are dictionaries; the request of the n-th add_request call      *)
(* carries the number n.  avg_batch_size is kept as the sum of the batch    *)
(* sizes (the code keeps that sum divided by total_batches), and            *)
(* throughput_improvement for the nominal processing time of 100 ms.        *)

\* config['max_batch_size'], line 342
max_batch_size == 3

\* config['batch_timeout_ms'], line 343
batch_timeout_ms == 50

Request(n) == [request_id |-> n]

\* the request arguments of the n-th call: a dictionary, or a string
RequestArguments(n) == {Request(n), Str("request")}

\* the copy and clear of lines 379-380, asleep at line 384
Batch(caller, requests) == [caller |-> caller, batch |-> requests]

\* the handler task, not a caller
TimeoutHandler == 0

add_request_untimed(request) ==
    /\ requests_added < MaxRequests
    /\ requests_added' = requests_added + 1
    /\ IF ~IsDict(request)
       THEN /\ add_result' = [add_result EXCEPT ![requests_added'] =
                                 [returned |-> TRUE, request_queued |-> FALSE,
                                  error |-> "TypeError"]]
            /\ UNCHANGED <<pending_requests, timeout_tasks, in_flight>>
       ELSE LET appended == Append(pending_requests, request)
            IN  IF Len(appended) >= max_batch_size
                THEN /\ pending_requests' = <<>>
                     /\ in_flight' =
                            in_flight \cup {Batch(requests_added', appended)}
                     /\ UNCHANGED <<timeout_tasks, add_result>>
                ELSE /\ pending_requests' = appended
                     /\ add_result' =
                            [add_result EXCEPT ![requests_added'] =
                                [returned |-> TRUE, request_queued |-> TRUE,
                                 queue_position |-> Len(appended),
                                 estimated_wait_ms |-> batch_timeout_ms]]
                     /\ UNCHANGED <<timeout_tasks, in_flight>>
    /\ UNCHANGED <<batch_stats, processed>>
    /\ UNCHANGED <<schedulerVars, carbonVars, orchestratorVars, serverlessVars>>

(* add_request up to its return or to the sleep of _process_batch (lines    *)
(* 351-372, 376-384).  Subscripting a request that is no dictionary raises  *)
(* at line 354 and the handler of lines 370-372 answers.                    *)
add_request(request) ==
    /\ requests_added < MaxRequests
    /\ requests_added' = requests_added + 1
    /\ IF ~IsDict(request)
       THEN /\ add_result' = [add_result EXCEPT ![requests_added'] =
                                 [returned |-> TRUE, request_queued |-> FALSE,
                                  error |-> "TypeError"]]
            /\ UNCHANGED <<pending_requests, timeout_tasks, in_flight>>
       ELSE LET appended == Append(pending_requests, request)
            IN  IF Len(appended) >= max_batch_size
                THEN /\ pending_requests' = <<>>
                     /\ in_flight' =
                            in_flight \cup {Batch(requests_added', appended)}
                     /\ UNCHANGED <<timeout_tasks, add_result>>
                ELSE /\ pending_requests' = appended
                     /\ timeout_tasks' = timeout_tasks + 1
                     /\ add_result' =
                            [add_result EXCEPT ![requests_added'] =
                                [returned |-> TRUE, request_queued |-> TRUE,
                                 queue_position |-> Len(appended),
                                 estimated_wait_ms |-> batch_timeout_ms]]
                     /\ UNCHANGED in_flight
    /\ UNCHANGED <<batch_stats, processed>>
    /\ UNCHANGED <<schedulerVars, carbonVars, orchestratorVars, serverlessVars>>

(* _batch_timeout_handler after its sleep (lines 410-413): it takes what    *)
(* is pending, if anything, and sleeps in _process_batch.                   *)
batch_timeout_handler ==
    /\ timeout_tasks > 0
    /\ timeout_tasks' = timeout_tasks - 1
    /\ IF pending_requests # <<>>
       THEN /\ pending_requests' = <<>>
            /\ in_flight' =
                   in_flight \cup {Batch(TimeoutHandler, pending_requests)}
       ELSE UNCHANGED <<pending_requests, in_flight>>
    /\ UNCHANGED <<batch_stats, requests_added, add_result, processed>>
    /\ UNCHANGED <<schedulerVars, carbonVars, orchestratorVars, serverlessVars>>

(* _process_batch after its sleep (lines 385-406): the statistics, and the  *)
(* result for the add_request call that is waiting for it.                  *)
process_batch(b) ==
    /\ b \in in_flight
    /\ in_flight' = in_flight \ {b}
    /\ batch_stats' =
           [total_batches |-> batch_stats.total_batches + 1,
            avg_batch_size |-> batch_stats.avg_batch_size + Len(b.batch),
            throughput_improvement |-> Len(b.batch)]
    /\ processed' = Append(processed, b)
    /\ add_result' =
           (IF b.caller = TimeoutHandler THEN add_result
            ELSE [add_result EXCEPT ![b.caller] =
                     [returned |-> TRUE, batch_processed |-> TRUE,
                      batch_size |-> Len(b.batch),
                      throughput_improvement |-> Len(b.batch)]])
    /\ UNCHANGED <<pending_requests, timeout_tasks, requests_added>>
    /\ UNCHANGED <<schedulerVars, carbonVars, orchestratorVars, serverlessVars>>

NextBatching ==
    \/ \E request \in RequestArguments(requests_added + 1) :
           add_request(request)
    \/ batch_timeout_handler
    \/ \E b \in in_flight : process_batch(b)

(* The event loop runs the tasks whose sleep has ended. *)
SpecBatching ==
    /\ Init /\ [][NextBatching]_vars
    /\ WF_vars(batch_timeout_handler)
    /\ WF_vars(\E b \in in_flight : process_batch(b))

\* the request of call n was added to the pending list
C29_Added(n) ==
    /\ n <= requests_added
    /\ ~(add_result[n].returned /\ "error" \in DOMAIN add_result[n])

C29_Positions(requests, n) ==
    Cardinality({i \in DOMAIN requests : requests[i] = Request(n)})

C29_InBatches(batches, n) ==
    Cardinality({b \in batches : C29_Positions(b.batch, n) > 0})

C29_Processed == {processed[i] : i \in DOMAIN processed}

----------------------------------------------------------------------------
(* ServerlessInferenceManager (hierarchical_serving.py, lines 126-232).     *)
(* cold_start_cache is a dictionary: the model keeps its items in the       *)
(* order of insertion, which is the order the loop of line 216 reads.       *)

\* the function names callers invoke
InvokedNames == {"f", "inference_function_1"}

\* f"inference_function_{n}", line 207
ScaledNames ==
    <<"inference_function_0", "inference_function_1", "inference_function_2",
      "inference_function_3", "inference_function_4", "inference_function_5",
      "inference_function_6", "inference_function_7">>

ScaledName(n) == ScaledNames[n + 1]

CacheNames(cache) == {cache[i].name : i \in DOMAIN cache}

\* cache[name] = {'started_at': ..., 'invocation_count': 0}, lines 174-177:
\* a name that is in the dictionary keeps its place
CachePut(cache, name) ==
    IF name \in CacheNames(cache)
    THEN [i \in DOMAIN cache |->
             IF cache[i].name = name
             THEN [name |-> name, invocation_count |-> 0] ELSE cache[i]]
    ELSE Append(cache, [name |-> name, invocation_count |-> 0])

\* lines 184-185
CountInvocation(cache, name) ==
    [i \in DOMAIN cache |->
        IF cache[i].name = name
        THEN [cache[i] EXCEPT !.invocation_count = @ + 1] ELSE cache[i]]

(* invoke_function up to its first sleep (lines 139-148, 184-188): the      *)
(* sleep of the cold start when the function is not in the cache, the       *)
(* sleep of the execution when it is.                                       *)
invoke_function(k, function_name) ==
    /\ invocation[k].pc = "new"
    /\ \A l \in Invocations : l < k => invocation[l].pc # "new"
    /\ LET is_warm == function_name \in CacheNames(cold_start_cache)
       IN  IF is_warm
           THEN /\ scaling_metrics' =
                       [scaling_metrics EXCEPT !.warm_hits = @ + 1]
                /\ cold_start_cache' =
                       CountInvocation(cold_start_cache, function_name)
                /\ invocation' =
                       [invocation EXCEPT ![k] =
                           [pc |-> "executing", function_name |-> function_name,
                            is_warm |-> TRUE]]
           ELSE /\ invocation' =
                       [invocation EXCEPT ![k] =
                           [pc |-> "cold_start", function_name |-> function_name,
                            is_warm |-> FALSE]]
                /\ UNCHANGED <<scaling_metrics, cold_start_cache>>
    /\ UNCHANGED <<auto_scale, scale_calls, stopped>>
    /\ UNCHANGED <<schedulerVars, carbonVars, orchestratorVars, batchingVars>>

(* The sleep of _cold_start_function has ended (lines 173-179, 146, 184-    *)
(* 188): the function is cached as warm, the counters go up and the         *)
(* execution starts.                                                        *)
cold_start_function(k) ==
    /\ invocation[k].pc = "cold_start"
    /\ cold_start_cache' =
           CountInvocation(CachePut(cold_start_cache, invocation[k].function_name),
                           invocation[k].function_name)
    /\ scaling_metrics' =
           [scaling_metrics EXCEPT !.active_functions = @ + 1,
                                   !.cold_starts = @ + 1]
    /\ invocation' = [invocation EXCEPT ![k].pc = "executing"]
    /\ UNCHANGED <<auto_scale, scale_calls, stopped>>
    /\ UNCHANGED <<schedulerVars, carbonVars, orchestratorVars, batchingVars>>

(* The sleep of _execute_function has ended: invoke_function returns        *)
(* (lines 190-202).                                                         *)
execute_function(k) ==
    /\ invocation[k].pc = "executing"
    /\ invocation' =
           [invocation EXCEPT ![k] =
               [pc |-> "done", function_name |-> invocation[k].function_name,
                result |-> [function_execution_completed |-> TRUE,
                            function_name |-> invocation[k].function_name,
                            cold_start |-> ~invocation[k].is_warm]]]
    /\ UNCHANGED <<cold_start_cache, scaling_metrics, auto_scale, scale_calls,
                   stopped>>
    /\ UNCHANGED <<schedulerVars, carbonVars, orchestratorVars, batchingVars>>

\* lines 214-218: the functions that were never invoked, in cache order
IdleFunctions(cache) ==
    LET idle == SelectSeq(cache, LAMBDA item : item.invocation_count = 0)
    IN  [i \in DOMAIN idle |-> idle[i].name]

\* idle_functions[:len(idle_functions)//2], line 220
ScaledDown(cache) ==
    LET idle_functions == IdleFunctions(cache)
        half == SubSeq(idle_functions, 1, Len(idle_functions) \div 2)
    IN  {half[i] : i \in DOMAIN half}

(* The end of auto_scale_functions (lines 214-231): half of the idle        *)
(* functions are stopped and the call returns.                              *)
ScaleDownAndReturn(cache, metrics, target_capacity, scaling_actions) ==
    LET gone == ScaledDown(cache)
        left == SelectSeq(cache, LAMBDA item : item.name \notin gone)
    IN  /\ cold_start_cache' = left
        /\ scaling_metrics' =
               [metrics EXCEPT !.active_functions = @ - Cardinality(gone)]
        /\ stopped' = stopped \cup gone
        /\ auto_scale' =
               [pc |-> "idle",
                result |-> [auto_scaling_completed |-> TRUE,
                            current_capacity |-> Len(left),
                            target_capacity |-> target_capacity,
                            started |-> scaling_actions,
                            stopped |-> gone]]

\* line 200: max(2, int(current_load * 1.2))
TargetCapacity(current_load) == Max(2, (current_load * 12) \div 10)

(* auto_scale_functions up to its first sleep or, when it starts no         *)
(* function, to its return (lines 198-209).                                 *)
auto_scale_functions ==
    /\ auto_scale.pc = "idle"
    /\ scale_calls < MaxScaleCalls
    /\ scale_calls' = scale_calls + 1
    /\ LET current_load == Len(cold_start_cache)
           target_capacity == TargetCapacity(current_load)
       IN  IF current_load < target_capacity
           THEN /\ auto_scale' =
                       [pc |-> "starting", i |-> 0,
                        count |-> target_capacity - current_load,
                        target_capacity |-> target_capacity,
                        new_function |-> ScaledName(Len(cold_start_cache)),
                        scaling_actions |-> <<>>]
                /\ UNCHANGED <<cold_start_cache, scaling_metrics, stopped>>
           ELSE ScaleDownAndReturn(cold_start_cache, scaling_metrics,
                                   target_capacity, <<>>)
    /\ UNCHANGED invocation
    /\ UNCHANGED <<schedulerVars, carbonVars, orchestratorVars, batchingVars>>

(* The sleep of the cold start of line 208 has ended: the function is       *)
(* cached, and the loop names the next function or ends.                    *)
scale_up ==
    /\ auto_scale.pc = "starting"
    /\ LET cache == CachePut(cold_start_cache, auto_scale.new_function)
           metrics == [scaling_metrics EXCEPT !.active_functions = @ + 1]
           scaling_actions ==
               Append(auto_scale.scaling_actions, auto_scale.new_function)
           i == auto_scale.i + 1
       IN  IF i < auto_scale.count
           THEN /\ cold_start_cache' = cache
                /\ scaling_metrics' = metrics
                /\ auto_scale' =
                       [auto_scale EXCEPT
                           !.i = i,
                           !.new_function = ScaledName(Len(cache) + i),
                           !.scaling_actions = scaling_actions]
                /\ UNCHANGED stopped
           ELSE ScaleDownAndReturn(cache, metrics, auto_scale.target_capacity,
                                   scaling_actions)
    /\ UNCHANGED <<invocation, scale_calls>>
    /\ UNCHANGED <<schedulerVars, carbonVars, orchestratorVars, batchingVars>>

NextServerless ==
    \/ \E k \in Invocations, function_name \in InvokedNames :
           invoke_function(k, function_name)
    \/ \E k \in Invocations : cold_start_function(k)
    \/ \E k \in Invocations : execute_function(k)
    \/ auto_scale_functions
    \/ scale_up

SpecServerless == Init /\ [][NextServerless]_vars

Quiescent ==
    /\ \A k \in Invocations : invocation[k].pc \in {"new", "done"}
    /\ auto_scale.pc = "idle"

(* C30: when no call is in progress, active_functions is the number of     *)
(* functions in the warm cache; and two invocations of one function have    *)
(* both counted a cold start only if the function was stopped in between.   *)
C30_ActiveMatchesCache ==
    /\ Quiescent =>
           scaling_metrics.active_functions = Len(cold_start_cache)
    /\ \A k \in Invocations, l \in Invocations :
           ( /\ k # l
             /\ invocation[k].pc = "done" /\ invocation[l].pc = "done"
             /\ invocation[k].function_name = invocation[l].function_name
             /\ invocation[k].result.cold_start
             /\ invocation[l].result.cold_start )
           => invocation[k].function_name \in stopped

====
